---- MODULE Spec2Model ----
(***************************************************************************)
(* tmpltr: a content-addressable template store.                           *)
(*                                                                         *)
(* State: the on-disk store (per template name: the template directory,   *)
(* the files/ blob pool, manifest.json), the make invocation in progress   *)
(* (runMake, one step per source statement that touches the disk), and     *)
(* the outcome of the last restore / delete / list invocation.             *)
(*                                                                         *)
(* Byte strings and path strings are sequences of byte values.             *)
(***************************************************************************)
EXTENDS Integers, Sequences, FiniteSets, TLC

----------------------------------------------------------------------------
(* Bounds of the model                                                     *)

\* number of make invocations started in one behaviour
MaxMakes == 2

\* number of files in a source tree
MaxFiles == 2

----------------------------------------------------------------------------
(* Byte strings                                                            *)

\* n copies of byte b
Rep(b, n) == [i \in 1..n |-> b]

\* the part of s from position i (1-based) to the end
Tail_(s, i) == IF i > Len(s) THEN <<>> ELSE SubSeq(s, i, Len(s))

\* length of the run of equal bytes at the head of s, at most 255
RECURSIVE RunLen(_, _)
RunLen(s, k) ==
    IF k < Len(s) /\ k < 255 /\ s[k + 1] = s[1] THEN RunLen(s, k + 1) ELSE k

\* the deflate body of a gzip stream: (count, byte) pairs
RECURSIVE Deflate(_)
Deflate(s) ==
    IF s = <<>> THEN <<>>
    ELSE LET k == RunLen(s, 1)
         IN  <<k, s[1]>> \o Deflate(Tail_(s, k + 1))

\* a deflate body is well formed: pairs with a positive count
RECURSIVE ValidBody(_)
ValidBody(c) ==
    IF c = <<>> THEN TRUE
    ELSE /\ Len(c) >= 2
         /\ c[1] >= 1
         /\ ValidBody(Tail_(c, 3))

RECURSIVE Inflate(_)
Inflate(c) ==
    IF c = <<>> THEN <<>>
    ELSE Rep(c[2], c[1]) \o Inflate(Tail_(c, 3))

\* the two magic bytes that open a gzip stream
GzipMagic == <<31, 139>>

\* faulty variant of CompressData: leaves alone data that opens like a gzip
\* stream
CompressData_keepsGzip(data) ==
    IF Len(data) = 0 \/ (Len(data) >= 2 /\ SubSeq(data, 1, 2) = GzipMagic)
    THEN data
    ELSE GzipMagic \o Deflate(data)

\* compression.CompressData: identity on the empty input, else a gzip stream
CompressData(data) ==
    IF Len(data) = 0 THEN data ELSE GzipMagic \o Deflate(data)

\* gzip.NewReader accepts the stream: magic header present
GzipHeaderOK(c) == Len(c) >= 2 /\ SubSeq(c, 1, 2) = GzipMagic

\* compression.DecompressData: [ok, data]; ok = FALSE is the error return
DecompressData(c) ==
    IF Len(c) = 0 THEN [ok |-> TRUE, data |-> c]
    ELSE IF ~GzipHeaderOK(c) THEN [ok |-> FALSE, data |-> <<>>]
    ELSE IF ~ValidBody(Tail_(c, 3)) THEN [ok |-> FALSE, data |-> <<>>]
    ELSE [ok |-> TRUE, data |-> Inflate(Tail_(c, 3))]

----------------------------------------------------------------------------
(* Path strings                                                            *)

P_a_txt == <<97, 46, 116, 120, 116>>              \* "a.txt"
P_b_png == <<98, 46, 112, 110, 103>>              \* "b.png"
P_d_c_txt == <<100, 47, 99, 46, 116, 120, 116>>   \* "d/c.txt"

\* filepath.IsAbs on a slash-separated path
IsAbs(path) == Len(path) > 0 /\ path[1] = 47

\* extensions of formats that are already compressed; TRUE = skip compression
compressedExtensions ==
    (  <<46, 103, 122>>          :> TRUE      \* .gz
    @@ <<46, 122, 105, 112>>     :> TRUE      \* .zip
    @@ <<46, 55, 122>>           :> TRUE      \* .7z
    @@ <<46, 114, 97, 114>>      :> TRUE      \* .rar
    @@ <<46, 98, 122, 50>>       :> TRUE      \* .bz2
    @@ <<46, 120, 122>>          :> TRUE      \* .xz
    @@ <<46, 116, 97, 114>>      :> FALSE     \* .tar
    @@ <<46, 106, 112, 103>>     :> TRUE      \* .jpg
    @@ <<46, 106, 112, 101, 103>> :> TRUE     \* .jpeg
    @@ <<46, 112, 110, 103>>     :> TRUE      \* .png
    @@ <<46, 103, 105, 102>>     :> TRUE      \* .gif
    @@ <<46, 109, 112, 51>>      :> TRUE      \* .mp3
    @@ <<46, 109, 112, 52>>      :> TRUE      \* .mp4
    @@ <<46, 97, 118, 105>>      :> TRUE      \* .avi
    @@ <<46, 109, 107, 118>>     :> TRUE      \* .mkv
    @@ <<46, 112, 100, 102>>     :> TRUE )    \* .pdf

\* the backwards scan of ShouldCompress for the last '.' of the final path
\* element; 0 when there is none (the source's lastDot = -1)
RECURSIVE LastDot(_, _)
LastDot(filePath, i) ==
    IF i < 1 THEN 0
    ELSE IF filePath[i] = 46 THEN i
    ELSE IF filePath[i] = 47 \/ filePath[i] = 92 THEN 0
    ELSE LastDot(filePath, i - 1)

\* files shorter than this are never compressed
MinCompressSize == 100

\* compression.ShouldCompress
ShouldCompress(data, filePath) ==
    IF Len(data) < MinCompressSize THEN FALSE
    ELSE LET lastDot == LastDot(filePath, Len(filePath))
             ext == IF lastDot >= 1 THEN Tail_(filePath, lastDot) ELSE <<>>
         IN  IF lastDot >= 1 /\ ext \in DOMAIN compressedExtensions
             THEN ~compressedExtensions[ext]
             ELSE Len(data) >= MinCompressSize

----------------------------------------------------------------------------
(* Content hasher                                                          *)

\* a hexadecimal digit, and its value
HexDigit(d) == IF d < 10 THEN 48 + d ELSE 87 + d

HexValue(c) == IF c <= 57 THEN c - 48 ELSE IF c >= 97 THEN c - 87 ELSE c - 55

\* the bytes of s written as two hexadecimal digits each
HexString(s) ==
    [i \in 1..(2 * Len(s)) |->
       IF i % 2 = 1 THEN HexDigit(s[(i + 1) \div 2] \div 16)
       ELSE HexDigit(s[i \div 2] % 16)]

\* hash.HashBytes: SHA-256 hex digest, modelled as a collision-free,
\* never-empty string of hexadecimal digits: a mark and the run-length form
\* of the input in hexadecimal
HashBytes(data) == <<35>> \o HexString(Deflate(data))

\* hash.GenerateFileNameHash: the digest of the path string
GenerateFileNameHash(filePath) == HashBytes(filePath)

----------------------------------------------------------------------------
(* Manifest model                                                          *)

\* manifest.NewManifest
NewManifest(name, now) == [name |-> name, created_at |-> now, files |-> <<>>]

\* faulty variant of AddFile: every entry is recorded as content-bearing
AddFile_includeAlways(m, originalPath, hash, includeContents, compressed, originalSize, storedSize) ==
    [m EXCEPT !.files = Append(@,
        [original_path    |-> originalPath,
         hash             |-> hash,
         include_contents |-> TRUE,
         compressed       |-> compressed,
         original_size    |-> originalSize,
         stored_size      |-> storedSize])]

\* manifest.AddFile
AddFile(m, originalPath, hash, includeContents, compressed, originalSize, storedSize) ==
    [m EXCEPT !.files = Append(@,
        [original_path    |-> originalPath,
         hash             |-> hash,
         include_contents |-> includeContents,
         compressed       |-> compressed,
         original_size    |-> originalSize,
         stored_size      |-> storedSize])]

\* faulty variant of ValidateFiles: the duplicate test keyed by hash
RECURSIVE ValidateFiles_hashSet(_, _, _)
ValidateFiles_hashSet(files, i, seen) ==
    IF i > Len(files) THEN ""
    ELSE LET file == files[i]
         IN  IF file.original_path = <<>> THEN "file original_path cannot be empty"
             ELSE IF file.hash = <<>> THEN "file hash cannot be empty"
             ELSE IF file.hash \in seen THEN "duplicate file path in manifest"
             ELSE IF IsAbs(file.original_path) THEN "file path must be relative"
             ELSE ValidateFiles_hashSet(files, i + 1, seen \cup {file.hash})

\* the loop of ValidateManifest over the entries from index i on; pathSet is
\* the set of paths seen so far.  "" is the nil error.
RECURSIVE ValidateFiles(_, _, _)
ValidateFiles(files, i, pathSet) ==
    IF i > Len(files) THEN ""
    ELSE LET file == files[i]
         IN  IF file.original_path = <<>> THEN "file original_path cannot be empty"
             ELSE IF file.hash = <<>> THEN "file hash cannot be empty"
             ELSE IF file.original_path \in pathSet THEN "duplicate file path in manifest"
             ELSE IF IsAbs(file.original_path) THEN "file path must be relative"
             ELSE ValidateFiles(files, i + 1, pathSet \cup {file.original_path})

\* faulty variant of GetCompressionStats: counts every entry
RECURSIVE StatsOfAll(_, _, _)
StatsOfAll(files, i, acc) ==
    IF i > Len(files) THEN acc
    ELSE StatsOfAll(files, i + 1,
           [compressedFiles |-> acc.compressedFiles
                                  + (IF files[i].compressed THEN 1 ELSE 0),
            originalSize |-> acc.originalSize + files[i].original_size,
            storedSize |-> acc.storedSize + files[i].stored_size])

GetCompressionStats_allEntries(m) ==
    StatsOfAll(m.files, 1,
               [compressedFiles |-> 0, originalSize |-> 0, storedSize |-> 0])

\* the loop of GetCompressionStats from entry i on, acc holding the three
\* results so far
RECURSIVE StatsFrom(_, _, _)
StatsFrom(files, i, acc) ==
    IF i > Len(files) THEN acc
    ELSE LET file == files[i]
         IN  StatsFrom(files, i + 1,
               IF file.include_contents
               THEN [compressedFiles |-> acc.compressedFiles
                                           + (IF file.compressed THEN 1 ELSE 0),
                     originalSize |-> acc.originalSize + file.original_size,
                     storedSize |-> acc.storedSize + file.stored_size]
               ELSE acc)

\* Manifest.GetCompressionStats: (compressedFiles, originalSize, storedSize)
GetCompressionStats(m) ==
    StatsFrom(m.files, 1,
              [compressedFiles |-> 0, originalSize |-> 0, storedSize |-> 0])

\* Manifest.GetCompressionRatio: the quotient storedSize / originalSize as
\* a fraction, 0 when originalSize is 0
GetCompressionRatio(m) ==
    LET s == GetCompressionStats(m)
    IN  IF s.originalSize = 0 THEN [num |-> 0, den |-> 1]
        ELSE [num |-> s.storedSize, den |-> s.originalSize]

\* faulty variant of ValidateManifest: no check for an empty file list
ValidateManifest_noEmptyCheck(manifest) ==
    IF manifest.name = <<>> THEN "manifest name cannot be empty"
    ELSE ValidateFiles(manifest.files, 1, {})

\* manifest.ValidateManifest: the error message, "" when the manifest passes
ValidateManifest(manifest) ==
    IF manifest.name = <<>> THEN "manifest name cannot be empty"
    ELSE IF Len(manifest.files) = 0 THEN "manifest must contain at least one file"
    ELSE ValidateFiles(manifest.files, 1, {})

----------------------------------------------------------------------------
(* The JSON text of a manifest                                             *)

\* the decimal digits of a natural number
RECURSIVE Digits(_)
Digits(n) ==
    IF n < 10 THEN <<48 + n>> ELSE Digits(n \div 10) \o <<48 + (n % 10)>>

\* the number a sequence of decimal digits denotes
RECURSIVE ParseDigits(_)
ParseDigits(d) ==
    IF d = <<>> THEN 0
    ELSE ParseDigits(SubSeq(d, 1, Len(d) - 1)) * 10 + (d[Len(d)] - 48)

\* d without the zeros at its end
RECURSIVE TrimZeros(_)
TrimZeros(d) ==
    IF d # <<>> /\ d[Len(d)] = 48 THEN TrimZeros(SubSeq(d, 1, Len(d) - 1))
    ELSE d

\* nanoseconds in a second; a time is a count of nanoseconds
NanosPerSec == 1000000000

\* number of digits of the fraction of a second
FracDigits == 9

\* Time.MarshalJSON (RFC 3339 with nanoseconds): the seconds, and the
\* fraction as nine digits without the zeros at the end
MarshalTime(t) ==
    LET ns == Digits(t % NanosPerSec)
    IN  [sec |-> Digits(t \div NanosPerSec),
         frac |-> TrimZeros(Rep(48, FracDigits - Len(ns)) \o ns)]

\* Time.UnmarshalJSON
UnmarshalTime(x) ==
    ParseDigits(x.sec) * NanosPerSec
      + ParseDigits(x.frac \o Rep(48, FracDigits - Len(x.frac)))

\* the escape \uXXXX of a code point
UEscape(cp) ==
    <<92, 117, HexDigit(cp \div 4096), HexDigit((cp \div 256) % 16),
      HexDigit((cp \div 16) % 16), HexDigit(cp % 16)>>

\* the UTF-8 bytes of a code point below 65536
EncodeRune(cp) ==
    IF cp < 128 THEN <<cp>>
    ELSE IF cp < 2048 THEN <<192 + (cp \div 64), 128 + (cp % 64)>>
    ELSE <<224 + (cp \div 4096), 128 + ((cp \div 64) % 64), 128 + (cp % 64)>>

\* the code point U+FFFD that stands for a byte that is not UTF-8
RuneError == 65533

\* utf8.DecodeRuneInString: the length of the well-formed UTF-8 sequence at
\* the head of s, 0 when the first byte begins none
RuneLen(s) ==
    LET b == s[1]
        in(i, lo, hi) == Len(s) >= i /\ s[i] >= lo /\ s[i] <= hi
        cont(i) == in(i, 128, 191)
    IN  IF b < 128 THEN 1
        ELSE IF b >= 194 /\ b <= 223 /\ cont(2) THEN 2
        ELSE IF b = 224 /\ in(2, 160, 191) /\ cont(3) THEN 3
        ELSE IF b = 237 /\ in(2, 128, 159) /\ cont(3) THEN 3
        ELSE IF b >= 225 /\ b <= 239 /\ b # 237 /\ cont(2) /\ cont(3) THEN 3
        ELSE IF b = 240 /\ in(2, 144, 191) /\ cont(3) /\ cont(4) THEN 4
        ELSE IF b >= 241 /\ b <= 243 /\ cont(2) /\ cont(3) /\ cont(4) THEN 4
        ELSE IF b = 244 /\ in(2, 128, 143) /\ cont(3) /\ cont(4) THEN 4
        ELSE 0

\* the bytes json.Marshal writes between the quotes for a Go string: quote
\* and backslash escaped, newline, return and tab as two characters, other
\* control characters and < > & as \u00XX, U+2028 and U+2029 as \u202X,
\* and every byte that is not part of well-formed UTF-8 as \ufffd
RECURSIVE MarshalString(_)
MarshalString(s) ==
    IF s = <<>> THEN <<>>
    ELSE LET b == s[1]
             n == RuneLen(s)
         IN  IF b \in {34, 92} THEN <<92, b>> \o MarshalString(Tail_(s, 2))
             ELSE IF b = 10 THEN <<92, 110>> \o MarshalString(Tail_(s, 2))
             ELSE IF b = 13 THEN <<92, 114>> \o MarshalString(Tail_(s, 2))
             ELSE IF b = 9 THEN <<92, 116>> \o MarshalString(Tail_(s, 2))
             ELSE IF b < 32 \/ b \in {60, 62, 38}
                  THEN UEscape(b) \o MarshalString(Tail_(s, 2))
             ELSE IF n = 0
                  THEN UEscape(RuneError) \o MarshalString(Tail_(s, 2))
             ELSE IF n = 3 /\ b = 226 /\ s[2] = 128 /\ s[3] \in {168, 169}
                  THEN UEscape(8192 + s[3] - 128) \o MarshalString(Tail_(s, 4))
             ELSE SubSeq(s, 1, n) \o MarshalString(Tail_(s, n + 1))

\* the Go string json.Unmarshal reads from the bytes between the quotes
RECURSIVE UnmarshalString(_)
UnmarshalString(t) ==
    IF t = <<>> THEN <<>>
    ELSE IF t[1] # 92 THEN <<t[1]>> \o UnmarshalString(Tail_(t, 2))
    ELSE IF t[2] = 117
         THEN EncodeRune(HexValue(t[3]) * 4096 + HexValue(t[4]) * 256
                           + HexValue(t[5]) * 16 + HexValue(t[6]))
                \o UnmarshalString(Tail_(t, 7))
    ELSE IF t[2] = 110 THEN <<10>> \o UnmarshalString(Tail_(t, 3))
    ELSE IF t[2] = 114 THEN <<13>> \o UnmarshalString(Tail_(t, 3))
    ELSE IF t[2] = 116 THEN <<9>> \o UnmarshalString(Tail_(t, 3))
    ELSE <<t[2]>> \o UnmarshalString(Tail_(t, 3))

\* json.MarshalIndent of a Manifest: the values of the fields in the text
MarshalManifest(m) ==
    [name |-> MarshalString(m.name),
     created_at |-> MarshalTime(m.created_at),
     files |-> [i \in 1..Len(m.files) |->
                  [original_path |-> MarshalString(m.files[i].original_path),
                   hash |-> MarshalString(m.files[i].hash),
                   include_contents |-> m.files[i].include_contents,
                   compressed |-> m.files[i].compressed,
                   original_size |-> Digits(m.files[i].original_size),
                   stored_size |-> Digits(m.files[i].stored_size)]]]

\* json.Unmarshal of the text into a Manifest
UnmarshalManifest(x) ==
    [name |-> UnmarshalString(x.name),
     created_at |-> UnmarshalTime(x.created_at),
     files |-> [i \in 1..Len(x.files) |->
                  [original_path |-> UnmarshalString(x.files[i].original_path),
                   hash |-> UnmarshalString(x.files[i].hash),
                   include_contents |-> x.files[i].include_contents,
                   compressed |-> x.files[i].compressed,
                   original_size |-> ParseDigits(x.files[i].original_size),
                   stored_size |-> ParseDigits(x.files[i].stored_size)]]]

----------------------------------------------------------------------------
(* The path filter of make: package ignore                                 *)

\* strings.HasPrefix and strings.HasSuffix
HasPrefix(s, prefix) ==
    Len(prefix) <= Len(s) /\ SubSeq(s, 1, Len(prefix)) = prefix

HasSuffix(s, suffix) ==
    Len(suffix) <= Len(s) /\ SubSeq(s, Len(s) - Len(suffix) + 1, Len(s)) = suffix

\* strings.Contains for a single byte
ContainsByte(s, c) == \E i \in 1..Len(s) : s[i] = c

\* strings.Split(s, "/")
RECURSIVE SplitSlash(_)
SplitSlash(s) ==
    IF ~ContainsByte(s, 47) THEN <<s>>
    ELSE LET k == CHOOSE i \in 1..Len(s) :
                    s[i] = 47 /\ \A j \in 1..(i - 1) : s[j] # 47
         IN  <<SubSeq(s, 1, k - 1)>> \o SplitSlash(SubSeq(s, k + 1, Len(s)))

\* filepath.Base of a clean relative path
Base(path) == SplitSlash(path)[Len(SplitSlash(path))]

\* filepath.Match for patterns of literal bytes and '*': a star matches any
\* run of bytes other than the separator
RECURSIVE Match(_, _)
Match(pattern, name) ==
    IF pattern = <<>> THEN name = <<>>
    ELSE IF Head(pattern) = 42
    THEN \E k \in 0..Len(name) :
           /\ \A j \in 1..k : name[j] # 47
           /\ Match(Tail(pattern), SubSeq(name, k + 1, Len(name)))
    ELSE /\ name # <<>>
         /\ Head(name) = Head(pattern)
         /\ Match(Tail(pattern), Tail(name))

\* IgnoreRules.AddDefaultPatterns
defaultPatterns ==
    <<
       <<46, 103, 105, 116, 47>>,   \* .git/
       <<46, 115, 118, 110, 47>>,   \* .svn/
       <<46, 104, 103, 47>>,   \* .hg/
       <<110, 111, 100, 101, 95, 109, 111, 100, 117, 108, 101, 115, 47>>,   \* node_modules/
       <<46, 68, 83, 95, 83, 116, 111, 114, 101>>,   \* .DS_Store
       <<84, 104, 117, 109, 98, 115, 46, 100, 98>>,   \* Thumbs.db
       <<42, 46, 116, 109, 112>>,   \* *.tmp
       <<42, 46, 116, 101, 109, 112>>,   \* *.temp
       <<42, 46, 108, 111, 103>>,   \* *.log
       <<42, 46, 115, 119, 112>>,   \* *.swp
       <<42, 46, 115, 119, 111>>,   \* *.swo
       <<42, 126>>,   \* *~
       <<46, 116, 109, 112, 108, 116, 114, 105, 103, 110, 111, 114, 101>>    \* .tmpltrignore
    >>

\* IgnoreRules.matchesPattern
matchesPattern(filePath, pattern) ==
    IF HasSuffix(pattern, <<47>>)
    THEN LET dirPattern == SubSeq(pattern, 1, Len(pattern) - 1)
         IN  \/ filePath = dirPattern
             \/ HasPrefix(filePath, dirPattern \o <<47>>)
    ELSE \/ filePath = pattern
         \/ /\ ContainsByte(pattern, 42)
            /\ \/ Match(pattern, Base(filePath))
               \/ ContainsByte(pattern, 47) /\ Match(pattern, filePath)
         \/ IF ContainsByte(pattern, 47)
            THEN HasPrefix(filePath, pattern)
            ELSE \E k \in 1..Len(SplitSlash(filePath)) :
                   LET part == SplitSlash(filePath)[k]
                   IN  \/ part = pattern
                       \/ ContainsByte(pattern, 42) /\ Match(pattern, part)

\* IgnoreRules.ShouldIgnore on the path relative to the root directory
ShouldIgnore(patterns, relPath) ==
    \E i \in 1..Len(patterns) : matchesPattern(relPath, patterns[i])

----------------------------------------------------------------------------
(* Inputs of the commands                                                  *)

N_t1 == <<116, 49>>        \* "t1"
N_t2 == <<116, 50>>        \* "t2"
N_empty == <<>>            \* ""

\* the names under which a template directory can come to exist
StoreNames == {N_t1, N_t2}

\* a directory beside the base directory, as a path relative to it
N_out == <<46, 46, 47, 120>>      \* "../x"

\* the directories the store can reach: the template directories, which are
\* the direct children of the base directory, and the one beside it
Locations == StoreNames \cup {N_out}

\* the names given to make, restore and delete on the command line: one
\* that make accepts and one that every command rejects (SpecNames gives
\* make the names with a dot and with the forbidden characters)
CmdNames == {N_t1, N_empty}

C_empty == <<>>
C_small == <<104, 105>>                \* "hi": below the compression threshold
C_large == Rep(97, MinCompressSize)    \* the shortest content that is compressed
C_gzip == <<31, 139, 1, 104>>          \* a short file that is itself a gzip stream

File(path, content) == [path |-> path, content |-> content]

\* source trees: the files a walk of the target directory yields, in walk
\* order (lexical within each directory); the trees with at most MaxFiles files among
\* the empty directory, single files, pairs of files with identical content
\* (the second a dedup hit), a pair with different content, and a
\* three-file tree with one duplicate
Trees ==
    {t \in { <<>>,
             <<File(P_a_txt, C_small)>>,
             <<File(P_a_txt, C_large)>>,
             <<File(P_a_txt, C_small), File(P_d_c_txt, C_small)>>,
             <<File(P_a_txt, C_large), File(P_d_c_txt, C_large)>>,
             <<File(P_b_png, C_large), File(P_d_c_txt, C_large)>>,
             <<File(P_a_txt, C_empty), File(P_d_c_txt, C_empty)>>,
             <<File(P_a_txt, C_gzip), File(P_d_c_txt, C_gzip)>>,
             <<File(P_a_txt, C_large), File(P_b_png, C_small)>>,
             <<File(P_a_txt, C_small), File(P_b_png, C_large),
               File(P_d_c_txt, C_small)>> } : Len(t) <= MaxFiles}

\* what the target argument of make names
TargetKinds == {"dir", "missing", "file"}

\* what the output argument of restore names
DestKinds == {"none", "empty", "nonempty", "file"}

\* bytes !"<>|  \ : * ? and / that a template name may not contain
InvalidNameChars == {47, 92, 58, 42, 63, 34, 60, 62, 124}

\* cmd.validateTargetDirectory
validateTargetDirectory(target) ==
    IF target = "missing" THEN "target directory does not exist"
    ELSE IF target # "dir" THEN "target path is not a directory"
    ELSE ""

\* faulty variant of validateTemplateName: no check of the first byte
validateTemplateName_noDotCheck(name) ==
    IF name = <<>> THEN "template name cannot be empty"
    ELSE IF \E i \in 1..Len(name) : name[i] \in InvalidNameChars
         THEN "template name contains invalid characters"
    ELSE ""

\* cmd.validateTemplateName
validateTemplateName(name) ==
    IF name = <<>> THEN "template name cannot be empty"
    ELSE IF \E i \in 1..Len(name) : name[i] \in InvalidNameChars
         THEN "template name contains invalid characters"
    ELSE IF name[1] = 46 THEN "template name cannot start with a dot"
    ELSE ""

\* cmd.validateRestoreTemplateName
validateRestoreTemplateName(name) ==
    IF name = <<>> THEN "template name cannot be empty" ELSE ""

\* cmd.validateDeleteTemplateName
validateDeleteTemplateName(name) ==
    IF name = <<>> THEN "template name cannot be empty" ELSE ""

\* faulty variant of validateOutputDirectory: does not read the directory
validateOutputDirectory_noEntriesCheck(destKind) ==
    IF destKind = "file" THEN "output path exists but is not a directory"
    ELSE ""

\* cmd.validateOutputDirectory
validateOutputDirectory(destKind) ==
    IF destKind = "file" THEN "output path exists but is not a directory"
    ELSE IF destKind = "nonempty" THEN "output directory is not empty"
    ELSE ""

----------------------------------------------------------------------------
(* State                                                                   *)

VARIABLES
    tdir,      \* tdir[n]: the template directory <base>/n exists
    fdir,      \* fdir[n]: the blob pool directory <base>/n/files exists
    blobs,     \* blobs[n]: the blob pool, a function from hash to stored bytes
    mfile,     \* mfile[n]: the file <base>/n/manifest.json
    clock,     \* the wall clock read by NewManifest
    makes,     \* number of make invocations started
    mk,        \* the make invocation: its flags, position and manifest so far
    made,      \* made[n]: the arguments of the make that created template n
    last,      \* the command that returned last, and its result
    dest       \* the output directory of the last restore

vars == <<tdir, fdir, blobs, mfile, clock, makes, mk, made, last, dest>>

store == <<tdir, fdir, blobs, mfile>>

\* the empty function
NoBlobs == [h \in {} |-> <<>>]

NoManifest == [name |-> <<>>, created_at |-> 0, files |-> <<>>]

\* no manifest text
NoText == MarshalManifest(NoManifest)

\* manifest.json is absent
NoFile == [state |-> "absent", text |-> NoText]

\* manifest.json was created but its JSON text is cut short
Truncated == [state |-> "truncated", text |-> NoText]

\* manifest.SaveManifest when os.WriteFile succeeds: the file holds the
\* JSON text of the manifest
SaveManifest(manifest) ==
    [state |-> "valid", text |-> MarshalManifest(manifest)]

\* the store with no template directory in it
EmptyStore ==
    <<[n \in Locations |-> FALSE], [n \in Locations |-> FALSE],
      [n \in Locations |-> NoBlobs], [n \in Locations |-> NoFile]>>

\* a make invocation that has not started; pre is the store as the
\* invocation found it
IdleMk ==
    [pc |-> "idle", name |-> <<>>, tree |-> <<>>, ignoreContents |-> FALSE,
     noCompression |-> FALSE, m |-> NoManifest, idx |-> 0, err |-> "",
     existed |-> FALSE, fresh |-> FALSE, pre |-> EmptyStore,
     patterns |-> <<>>, hit |-> FALSE]

\* the processes that can run a make invocation
Procs == {1, 2}

NotMade ==
    [ok |-> FALSE, tree |-> <<>>, ignoreContents |-> FALSE,
     noCompression |-> FALSE, fresh |-> FALSE, deleted |-> FALSE]

NoDest == [kind |-> "none", files |-> NoBlobs]

NoLast ==
    [op |-> "none", name |-> <<>>, err |-> "", listed |-> {}, shown |-> {},
     decoded |-> {}, destKind |-> "none", failed |-> <<>>,
     stats |-> [compressedFiles |-> 0, originalSize |-> 0, storedSize |-> 0],
     ratio |-> [num |-> 0, den |-> 1],
     force |-> FALSE, input |-> <<>>, cancelled |-> FALSE]

Init ==
    /\ tdir = [n \in Locations |-> FALSE]
    /\ fdir = [n \in Locations |-> FALSE]
    /\ blobs = [n \in Locations |-> NoBlobs]
    /\ mfile = [n \in Locations |-> NoFile]
    /\ clock = 1
    /\ makes = 0
    /\ mk = [p \in Procs |-> IdleMk]
    /\ made = [n \in Locations |-> NotMade]
    /\ last = NoLast
    /\ dest = NoDest

----------------------------------------------------------------------------
(* Content store                                                           *)

\* filepath.Clean on the components of a relative path: empty components
\* and "." are dropped, ".." removes the component before it or, when there
\* is none, climbs one directory up
RECURSIVE CleanParts(_, _, _)
CleanParts(parts, i, acc) ==
    IF i > Len(parts) THEN acc
    ELSE CleanParts(parts, i + 1,
           IF parts[i] = <<>> \/ parts[i] = <<46>> THEN acc
           ELSE IF parts[i] = <<46, 46>>
           THEN IF acc.kept # <<>>
                THEN [acc EXCEPT !.kept = SubSeq(@, 1, Len(@) - 1)]
                ELSE [acc EXCEPT !.up = @ + 1]
           ELSE [acc EXCEPT !.kept = Append(@, parts[i])])

\* the components joined by slashes
RECURSIVE JoinSlash(_)
JoinSlash(parts) ==
    IF parts = <<>> THEN <<>>
    ELSE IF Len(parts) = 1 THEN parts[1]
    ELSE parts[1] \o <<47>> \o JoinSlash(Tail(parts))

\* Storage.GetTemplatePath: filepath.Join(baseDir, templateName), as a path
\* relative to the base directory ("." is the base directory itself)
GetTemplatePath(templateName) ==
    LET c == CleanParts(SplitSlash(templateName), 1, [up |-> 0, kept |-> <<>>])
        ups == [i \in 1..c.up |-> <<46, 46>>]
    IN  IF templateName \in StoreNames THEN templateName
        ELSE IF c.up = 0 /\ c.kept = <<>> THEN <<46>>
        ELSE JoinSlash(ups \o c.kept)

\* faulty variant of TemplateExists: looks for the template directory
TemplateExists_dir(templateName) ==
    templateName \in StoreNames /\ tdir[templateName]

\* Storage.TemplateExists: os.Stat of the manifest path succeeds
TemplateExists(templateName) ==
    /\ GetTemplatePath(templateName) \in Locations
    /\ mfile[GetTemplatePath(templateName)].state # "absent"

\* faulty variant of FileExists: looks for the hash in every template's pool
FileExists_anyTemplate(templateName, hash) ==
    \E n \in StoreNames : hash \in DOMAIN blobs[n]

\* Storage.FileExists: os.Stat of the blob path succeeds
FileExists(templateName, hash) ==
    /\ GetTemplatePath(templateName) \in Locations
    /\ hash \in DOMAIN blobs[GetTemplatePath(templateName)]

\* Storage.ListTemplates: the subdirectories of the base directory in which
\* os.Stat of the manifest path succeeds
ListTemplates ==
    {n \in StoreNames : tdir[n] /\ mfile[n].state # "absent"}

\* manifest.LoadManifest returns no error: the file is there and its text
\* parses
ManifestLoads(templateName) ==
    /\ GetTemplatePath(templateName) \in Locations
    /\ mfile[GetTemplatePath(templateName)].state = "valid"

\* manifest.LoadManifest: [ok, m]; fails when the file is absent or its
\* text does not parse
LoadManifest(templateName) ==
    IF ManifestLoads(templateName)
    THEN [ok |-> TRUE,
          m |-> UnmarshalManifest(mfile[GetTemplatePath(templateName)].text)]
    ELSE [ok |-> FALSE, m |-> NoManifest]

\* Storage.LoadFile: [ok, data]
LoadFile(templateName, hash) ==
    IF FileExists(templateName, hash)
    THEN [ok |-> TRUE, data |-> blobs[GetTemplatePath(templateName)][hash]]
    ELSE [ok |-> FALSE, data |-> <<>>]

\* Storage.LoadFileWithDecompression: read the blob, decode it when the
\* entry says it is compressed
LoadFileWithDecompression(templateName, hash, compressed) ==
    LET raw == LoadFile(templateName, hash)
    IN  IF ~raw.ok THEN raw
        ELSE IF compressed THEN DecompressData(raw.data)
        ELSE raw

\* Storage.SaveFileWithCompression: the bytes written under the hash and the
\* (compressed, storedSize) pair returned
SaveFileWithCompression(originalPath, content) ==
    IF ShouldCompress(content, originalPath)
    THEN LET c == CompressData(content)
         IN  [bytes |-> c, compressed |-> TRUE, storedSize |-> Len(c)]
    ELSE [bytes |-> content, compressed |-> FALSE, storedSize |-> Len(content)]

----------------------------------------------------------------------------
(* make                                                                    *)

\* no make invocation is between its first and its last step
NoMakeRunning == \A p \in Procs : mk[p].pc \in {"idle", "done"}

\* the invocation returns err
MakeReturn(p, err) ==
    mk' = [mk EXCEPT ![p] = [IdleMk EXCEPT !.pc = "done", !.err = err,
                                          !.name = mk[p].name,
                                          !.existed = mk[p].existed,
                                          !.pre = mk[p].pre,
                                          !.patterns = mk[p].patterns]]

\* the output directory of restore before the command runs
InitialDest(destKind) ==
    [kind |-> IF destKind = "none" THEN "none"
              ELSE IF destKind = "file" THEN "file" ELSE "dir",
     files |-> IF destKind = "nonempty" THEN (<<120>> :> <<>>) ELSE NoBlobs]

\* faulty variant of MakeRejection: no name-in-use check
MakeRejection_noInUseCheck(name, target) ==
    IF validateTargetDirectory(target) # "" THEN validateTargetDirectory(target)
    ELSE validateTemplateName(name)

\* the error with which runMake returns before it touches the store, "" when
\* it goes on to create the namespace
MakeRejection(name, target) ==
    IF validateTargetDirectory(target) # "" THEN validateTargetDirectory(target)
    ELSE IF validateTemplateName(name) # "" THEN validateTemplateName(name)
    ELSE IF TemplateExists(name) THEN "already exists"
    ELSE ""

\* the source tree and the flags --ignore-contents and --no-compression of a
\* call; a call that is rejected never reads them, and processFile never
\* reads --no-compression under --ignore-contents
MakeInputs(name, target) ==
    IF MakeRejection(name, target) # ""
    THEN {[tree |-> <<>>, ic |-> FALSE, nc |-> FALSE]}
    ELSE {[tree |-> t, ic |-> f[1], nc |-> f[2]] :
            t \in Trees, f \in {<<FALSE, FALSE>>, <<FALSE, TRUE>>, <<TRUE, FALSE>>}}

\* runMake up to the name-in-use check: argument validation, then
\* Storage.TemplateExists
MakeStart(p, name, target, tree, ic, nc) ==
    /\ makes < MaxMakes
    /\ NoMakeRunning
    /\ makes' = makes + 1
    /\ LET called == [IdleMk EXCEPT !.name = name,
                                    !.existed = TemplateExists(name),
                                    !.pre = store]
           start == [called EXCEPT !.tree = tree, !.ignoreContents = ic,
                                   !.noCompression = nc]
           err == MakeRejection(name, target)
       IN  mk' = [mk EXCEPT ![p] =
                    IF err # "" THEN [called EXCEPT !.pc = "done", !.err = err]
                    ELSE [start EXCEPT !.pc = "ensure"]]
    /\ last' = [NoLast EXCEPT !.op = "make", !.name = name]
    /\ dest' = NoDest
    /\ UNCHANGED <<store, clock, made>>

\* Storage.EnsureTemplateDir, then manifest.NewManifest.  MkdirAll can fail
\* before creating anything or after creating the template directory only.
MakeEnsureDir(p) ==
    /\ mk[p].pc = "ensure"
    /\ LET n == mk[p].name
       IN  \E outcome \in {"ok", "fail", "fail_partial"} :
             /\ tdir' = [tdir EXCEPT ![n] = @ \/ outcome # "fail"]
             /\ fdir' = [fdir EXCEPT ![n] = @ \/ outcome = "ok"]
             /\ IF outcome = "ok"
                THEN /\ mk' = [mk EXCEPT ![p].pc = "ignore",
                                         ![p].fresh = ~tdir[n],
                                         ![p].m = NewManifest(n, clock)]
                     /\ clock' = clock + 1
                ELSE /\ MakeReturn(p, "failed to create template directory")
                     /\ UNCHANGED <<clock, makes>>
    /\ UNCHANGED <<blobs, mfile, makes, made, last, dest>>

\* IgnoreRules.LoadIgnoreFile: reading .tmpltrignore succeeds or fails
MakeLoadIgnore(p) ==
    /\ mk[p].pc = "ignore"
    /\ \E ok \in BOOLEAN :
         IF ok THEN mk' = [mk EXCEPT ![p].pc = "scan", ![p].idx = 1]
         ELSE MakeReturn(p, "failed to load ignore file")
    /\ UNCHANGED <<store, clock, makes, made, last, dest>>

\* faulty variant of ContentKey: the path digest in both modes
ContentKey_pathOnly(file, ic) == GenerateFileNameHash(file.path)

\* the content key of processFile: the digest of the path string under
\* --ignore-contents, else the digest of the file's bytes
ContentKey(file, ic) ==
    IF ic THEN GenerateFileNameHash(file.path) ELSE HashBytes(file.content)

\* faulty variants of processFile: under --ignore-contents stored_size is
\* sIc(originalSize), and after a write under --no-compression it is
\* sNc(originalSize)
processFile_sizes(n, file, ic, nc, sIc(_), sNc(_)) ==
    LET originalSize == Len(file.content)
        fileHash == ContentKey(file, ic)
        entry == [hash |-> fileHash, includeContents |-> ~ic,
                  originalSize |-> originalSize,
                  write |-> ~FileExists(n, fileHash),
                  bytes |-> <<>>, compressed |-> FALSE,
                  storedSize |-> sIc(originalSize)]
    IN  IF ic THEN entry
        ELSE IF ~FileExists(n, fileHash)
        THEN IF nc
             THEN [entry EXCEPT !.bytes = file.content,
                                !.storedSize = sNc(originalSize)]
             ELSE LET r == SaveFileWithCompression(file.path, file.content)
                  IN  [entry EXCEPT !.bytes = r.bytes,
                                    !.compressed = r.compressed,
                                    !.storedSize = r.storedSize]
        ELSE [entry EXCEPT !.compressed = ~nc, !.storedSize = originalSize]

\* faulty variant of processFile: stored_size is the file size under
\* --ignore-contents
processFile_sizeInStructureMode(n, file, ic, nc) ==
    LET same(x) == x IN processFile_sizes(n, file, ic, nc, same, same)

\* faulty variant of processFile: stored_size is left at 0 after a write
\* under --no-compression
processFile_noStoredSize(n, file, ic, nc) ==
    LET zero(x) == 0
    IN  processFile_sizes(n, file, ic, nc, zero, zero)

\* what processFile decides for one file, given the blob pool of template n:
\* the bytes to write under the content key (write = FALSE on a dedup hit)
\* and the arguments of the AddFile call
processFile(n, file, ic, nc) ==
    LET originalSize == Len(file.content)
        fileHash == ContentKey(file, ic)
        entry == [hash |-> fileHash, includeContents |-> ~ic,
                  originalSize |-> originalSize,
                  write |-> ~FileExists(n, fileHash),
                  bytes |-> <<>>, compressed |-> FALSE, storedSize |-> 0]
    IN  IF ic THEN entry
        ELSE IF ~FileExists(n, fileHash)
        THEN IF nc
             THEN [entry EXCEPT !.bytes = file.content,
                                !.storedSize = originalSize]
             ELSE LET r == SaveFileWithCompression(file.path, file.content)
                  IN  [entry EXCEPT !.bytes = r.bytes,
                                    !.compressed = r.compressed,
                                    !.storedSize = r.storedSize]
        ELSE [entry EXCEPT !.compressed = ~nc, !.storedSize = originalSize]

\* faulty variant of SaveFile: no file is created for empty content
SaveFile_dropsEmpty(pool, hash, bytes) ==
    IF bytes = <<>> THEN pool
    ELSE [h \in DOMAIN pool \cup {hash} |-> IF h = hash THEN bytes ELSE pool[h]]

\* Storage.SaveFile: the blob pool after writing bytes under hash
SaveFile(pool, hash, bytes) ==
    [h \in DOMAIN pool \cup {hash} |-> IF h = hash THEN bytes ELSE pool[h]]

\* one callback of the walk in scanDirectory: processFile on the next file.
\* Reading the source file can fail; os.WriteFile of the blob can fail
\* before creating the file or after creating it with nothing written.
MakeProcessFile(p) ==
    /\ mk[p].pc = "scan"
    /\ mk[p].idx <= Len(mk[p].tree)
    /\ LET n == mk[p].name
           file == mk[p].tree[mk[p].idx]
           r == processFile(n, file, mk[p].ignoreContents, mk[p].noCompression)
       IN  \E outcome \in {"ok", "read_fail", "write_fail", "write_fail_partial"} :
             /\ outcome \in {"write_fail", "write_fail_partial"} => r.write
             /\ blobs' = [blobs EXCEPT ![n] =
                            IF outcome = "ok" /\ r.write
                            THEN SaveFile(@, r.hash, r.bytes)
                            ELSE IF outcome = "write_fail_partial"
                            THEN SaveFile(@, r.hash, <<>>)
                            ELSE @]
             /\ IF outcome = "ok"
                THEN mk' = [mk EXCEPT
                              ![p].idx = @ + 1,
                              ![p].m = AddFile(@, file.path, r.hash,
                                               r.includeContents, r.compressed,
                                               r.originalSize, r.storedSize)]
                ELSE MakeReturn(p, "failed to scan directory")
    /\ UNCHANGED <<tdir, fdir, mfile, clock, makes, made, last, dest>>

\* the end of runMake: manifest.ValidateManifest, then Storage.SaveManifest.
\* os.WriteFile of the manifest can fail before creating the file or after
\* creating it with part of the text written.
MakeFinish(p) ==
    /\ mk[p].pc = "scan"
    /\ mk[p].idx > Len(mk[p].tree)
    /\ LET n == mk[p].name
       IN  IF ValidateManifest(mk[p].m) # ""
           THEN /\ MakeReturn(p, "invalid manifest generated")
                /\ UNCHANGED <<mfile, made>>
           ELSE \E outcome \in {"ok", "fail", "fail_partial"} :
                  /\ mfile' = [mfile EXCEPT ![n] =
                                 IF outcome = "ok"
                                 THEN SaveManifest(mk[p].m)
                                 ELSE IF outcome = "fail_partial" THEN Truncated
                                 ELSE @]
                  /\ made' = [made EXCEPT ![n] =
                                IF outcome = "ok"
                                THEN [ok |-> TRUE, tree |-> mk[p].tree,
                                      ignoreContents |-> mk[p].ignoreContents,
                                      noCompression |-> mk[p].noCompression,
                                      fresh |-> mk[p].fresh,
                                      deleted |-> @.deleted]
                                ELSE @]
                  /\ MakeReturn(p, IF outcome = "ok" THEN ""
                                   ELSE "failed to save manifest")
    /\ UNCHANGED <<tdir, fdir, blobs, clock, makes, last, dest>>

----------------------------------------------------------------------------
(* restore                                                                 *)

\* faulty variant of RestoreFiles: goes on with the next entry after one
\* that failed
RECURSIVE RestoreFiles_skipsFailed(_, _, _, _, _)
RestoreFiles_skipsFailed(n, files, i, out, dec) ==
    IF i > Len(files)
    THEN [err |-> "", failed |-> <<>>, files |-> out, decoded |-> dec]
    ELSE LET fileEntry == files[i]
             path == fileEntry.original_path
             r == IF fileEntry.include_contents
                  THEN LoadFileWithDecompression(n, fileEntry.hash,
                                                 fileEntry.compressed)
                  ELSE [ok |-> TRUE, data |-> <<>>]
         IN  IF r.ok
             THEN RestoreFiles_skipsFailed(n, files, i + 1,
                                           SaveFile(out, path, r.data), dec)
             ELSE [RestoreFiles_skipsFailed(n, files, i + 1, out, dec)
                     EXCEPT !.err = "failed to restore file", !.failed = path]

\* the loop of runRestore over the manifest entries from index i on, each
\* step being restoreFile; out is the set of files written so far and dec
\* the paths whose blob was passed to DecompressData.  Stops at the first
\* entry that fails and returns its path in the error.
RECURSIVE RestoreFiles(_, _, _, _, _)
RestoreFiles(n, files, i, out, dec) ==
    IF i > Len(files)
    THEN [err |-> "", failed |-> <<>>, files |-> out, decoded |-> dec]
    ELSE LET fileEntry == files[i]
             path == fileEntry.original_path
         IN  IF fileEntry.include_contents
             THEN LET raw == LoadFile(n, fileEntry.hash)
                      r == LoadFileWithDecompression(n, fileEntry.hash,
                                                     fileEntry.compressed)
                      dec2 == IF raw.ok /\ fileEntry.compressed
                              THEN dec \cup {path} ELSE dec
                  IN  IF ~r.ok
                      THEN [err |-> "failed to restore file", failed |-> path,
                            files |-> out, decoded |-> dec2]
                      ELSE RestoreFiles(n, files, i + 1,
                                        SaveFile(out, path, r.data), dec2)
             ELSE RestoreFiles(n, files, i + 1, SaveFile(out, path, <<>>), dec)

\* faulty variant of Restore: creates the output directory before it looks
\* for the template
Restore_createsOutputFirst(name, destKind) ==
    /\ NoMakeRunning
    /\ mk' = [p \in Procs |-> IdleMk]
    /\ last' = [NoLast EXCEPT !.op = "restore", !.name = name,
                              !.destKind = destKind,
                              !.err = IF TemplateExists(name) THEN ""
                                      ELSE "does not exist"]
    /\ dest' = [kind |-> "dir", files |-> InitialDest(destKind).files]
    /\ UNCHANGED <<store, clock, makes, made>>

\* cmd.runRestore
Restore(name, destKind) ==
    /\ NoMakeRunning
    /\ mk' = [p \in Procs |-> IdleMk]
    /\ LET d0 == InitialDest(destKind)
           l0 == [NoLast EXCEPT !.op = "restore", !.name = name,
                                !.destKind = destKind]
       IN  IF validateRestoreTemplateName(name) # ""
           THEN /\ last' = [l0 EXCEPT !.err = validateRestoreTemplateName(name)]
                /\ dest' = d0
           ELSE IF validateOutputDirectory(destKind) # ""
           THEN /\ last' = [l0 EXCEPT !.err = validateOutputDirectory(destKind)]
                /\ dest' = d0
           ELSE IF ~TemplateExists(name)
           THEN /\ last' = [l0 EXCEPT !.err = "does not exist"]
                /\ dest' = d0
           ELSE IF ~ManifestLoads(name)
           THEN /\ last' = [l0 EXCEPT !.err = "failed to load template manifest"]
                /\ dest' = d0
           ELSE LET r == RestoreFiles(name, LoadManifest(name).m.files, 1,
                                      d0.files, {})
                IN  /\ last' = [l0 EXCEPT !.err = r.err, !.failed = r.failed,
                                           !.decoded = r.decoded]
                    /\ dest' = [kind |-> "dir", files |-> r.files]
    /\ UNCHANGED <<store, clock, makes, made>>

----------------------------------------------------------------------------
(* delete and list                                                         *)

\* what standard input holds when delete asks for confirmation
A_yes == <<121, 101, 115, 10>>              \* "yes\n"
A_no == <<110, 111, 10>>                    \* "no\n"

\* bufio.Reader.ReadString('\n'): the bytes up to and including the first
\* line feed; io.EOF when the input ends before one
ReadString(input) ==
    IF \E i \in 1..Len(input) : input[i] = 10
    THEN [ok |-> TRUE,
          line |-> SubSeq(input, 1, CHOOSE i \in 1..Len(input) :
                                      input[i] = 10
                                      /\ \A j \in 1..(i - 1) : input[j] # 10)]
    ELSE [ok |-> FALSE, line |-> input]

\* strings.ToLower on ASCII text
ToLower(s) == [i \in 1..Len(s) |-> IF s[i] \in 65..90 THEN s[i] + 32 ELSE s[i]]

\* strings.TrimSpace on ASCII text: tab, line feed, vertical tab, form
\* feed, carriage return and space are removed at both ends
RECURSIVE TrimSpace(_)
TrimSpace(s) ==
    IF s = <<>> THEN s
    ELSE IF s[1] \in {9, 10, 11, 12, 13, 32} THEN TrimSpace(Tail(s))
    ELSE IF s[Len(s)] \in {9, 10, 11, 12, 13, 32}
    THEN TrimSpace(SubSeq(s, 1, Len(s) - 1))
    ELSE s

\* faulty variant of confirmDeletion: compares the line as typed
confirmDeletion_noTrim(input) ==
    LET r == ReadString(input)
    IN  IF ~r.ok THEN [confirmed |-> FALSE, err |-> "failed to read confirmation input"]
        ELSE [confirmed |-> r.line = A_yes, err |-> ""]

\* cmd.confirmDeletion on the bytes of standard input
confirmDeletion(input) ==
    LET r == ReadString(input)
    IN  IF ~r.ok THEN [confirmed |-> FALSE, err |-> "failed to read confirmation input"]
        ELSE [confirmed |-> TrimSpace(ToLower(r.line)) = <<121, 101, 115>>,
              err |-> ""]

\* faulty variant of DeleteTemplate: removes manifest.json only
DeleteTemplate_manifestOnly(templateName) ==
    /\ mfile' = [mfile EXCEPT ![templateName] = NoFile]
    /\ UNCHANGED <<tdir, fdir, blobs>>

\* Storage.DeleteTemplate: os.RemoveAll of the template directory
DeleteTemplate(templateName) ==
    /\ tdir' = [tdir EXCEPT ![GetTemplatePath(templateName)] = FALSE]
    /\ fdir' = [fdir EXCEPT ![GetTemplatePath(templateName)] = FALSE]
    /\ blobs' = [blobs EXCEPT ![GetTemplatePath(templateName)] = NoBlobs]
    /\ mfile' = [mfile EXCEPT ![GetTemplatePath(templateName)] = NoFile]

\* cmd.runDelete; input is what standard input holds.  last records the
\* force flag once the template information was shown, and the input and
\* the message 'Delete operation cancelled.' when confirmation was asked.
Delete(name, force, input) ==
    /\ NoMakeRunning
    /\ mk' = [p \in Procs |-> IdleMk]
    /\ dest' = NoDest
    /\ LET l0 == [NoLast EXCEPT !.op = "delete", !.name = name]
           early == IF validateDeleteTemplateName(name) # ""
                    THEN validateDeleteTemplateName(name)
                    ELSE IF ~TemplateExists(name) THEN "does not exist"
                    ELSE IF ~ManifestLoads(name)
                    THEN "failed to load template information"
                    ELSE ""
           asked == early = "" /\ ~force
           err == IF early # "" THEN early
                  ELSE IF asked /\ confirmDeletion(input).err # ""
                  THEN "failed to get confirmation"
                  ELSE ""
           cancelled == asked /\ err = "" /\ ~confirmDeletion(input).confirmed
       IN  /\ last' = [l0 EXCEPT !.err = err,
                                 !.force = early = "" /\ force,
                                 !.input = IF asked THEN input ELSE <<>>,
                                 !.cancelled = cancelled]
           /\ IF err = "" /\ ~cancelled
              THEN /\ DeleteTemplate(name)
                   /\ made' = [made EXCEPT ![GetTemplatePath(name)] =
                                 [NotMade EXCEPT !.deleted = TRUE]]
              ELSE UNCHANGED <<store, made>>
    /\ UNCHANGED <<clock, makes>>

\* cmd.runList: Storage.ListTemplates, then getTemplateInfo on each name;
\* a name whose manifest does not load is skipped with a warning
List ==
    /\ NoMakeRunning
    /\ mk' = [p \in Procs |-> IdleMk]
    /\ dest' = NoDest
    /\ last' = [NoLast EXCEPT !.op = "list",
                              !.listed = ListTemplates,
                              !.shown = {n \in ListTemplates : ManifestLoads(n)}]
    /\ UNCHANGED <<store, clock, makes, made>>

----------------------------------------------------------------------------
Next ==
    \/ \E name \in CmdNames, target \in TargetKinds :
         \E in \in MakeInputs(name, target) :
           MakeStart(1, name, target, in.tree, in.ic, in.nc)
    \/ \E p \in Procs : MakeEnsureDir(p)
    \/ \E p \in Procs : MakeLoadIgnore(p)
    \/ \E p \in Procs : MakeProcessFile(p)
    \/ \E p \in Procs : MakeFinish(p)
    \/ \E name \in CmdNames, destKind \in DestKinds : Restore(name, destKind)
    \/ \E name \in CmdNames, force \in BOOLEAN, input \in {A_yes, A_no} :
         Delete(name, force, input)
    \/ List

Spec == Init /\ [][Next]_vars

----------------------------------------------------------------------------
(* ValidateManifest on arbitrary manifests                                 *)

\* number of entries of a manifest handed to ValidateManifest
MaxEntries == 2

P_abs == <<47, 97>>     \* "/a"

\* the original_path, hash and name values of the manifests validated
VPaths == {<<>>, P_a_txt, P_b_png, P_abs}
VHashes == {<<>>, HashBytes(C_small)}
VNames == {<<>>, N_t1}

InitValidate ==
    /\ tdir = [n \in Locations |-> FALSE]
    /\ fdir = [n \in Locations |-> FALSE]
    /\ blobs = [n \in Locations |-> NoBlobs]
    /\ mfile = [n \in Locations |-> NoFile]
    /\ clock = 1
    /\ makes = 0
    /\ \E name \in VNames :
         mk = [p \in Procs |-> IF p = 1
                               THEN [IdleMk EXCEPT !.m = NewManifest(name, 1)]
                               ELSE IdleMk]
    /\ made = [n \in Locations |-> NotMade]
    /\ last = NoLast
    /\ dest = NoDest

\* Manifest.AddFile on the manifest under construction
VAddFile(path, hash, ic) ==
    /\ Len(mk[1].m.files) < MaxEntries
    /\ mk' = [mk EXCEPT ![1].m = AddFile(@, path, hash, ic, FALSE, 0, 0)]
    /\ last' = NoLast
    /\ UNCHANGED <<store, clock, makes, made, dest>>

\* manifest.ValidateManifest on the manifest under construction
VValidate ==
    /\ last.op = "none"
    /\ last' = [NoLast EXCEPT !.op = "validate",
                              !.err = ValidateManifest(mk[1].m)]
    /\ UNCHANGED <<store, clock, makes, mk, made, dest>>

NextValidate ==
    \/ \E path \in VPaths, hash \in VHashes, ic \in BOOLEAN :
         VAddFile(path, hash, ic)
    \/ VValidate

SpecValidate == InitValidate /\ [][NextValidate]_vars

----------------------------------------------------------------------------
(* make on arbitrary template names                                        *)

\* length of a template name given to make
MaxNameLen == 2

\* the bytes of the names: the nine characters a name may not contain, the
\* dot, a letter and the space
NameBytes == InvalidNameChars \cup {46, 97, 32}

NameInputs == UNION {[1..k -> NameBytes] : k \in 0..MaxNameLen}

\* the first call of make on the empty store: runMake up to the
\* name-in-use check
NMake(name, target) ==
    /\ makes = 0
    /\ MakeStart(1, name, target, <<>>, FALSE, FALSE)

NextNames ==
    \E name \in NameInputs, target \in TargetKinds : NMake(name, target)

SpecNames == Init /\ [][NextNames]_vars

----------------------------------------------------------------------------
(* two templates with the same file contents                               *)

TwoNames == {N_t1, N_t2}

\* the source trees whose files all hold the same bytes
TwoTrees ==
    {t \in Trees : t # <<>> /\ \A i \in 1..Len(t) : t[i].content = C_large}

\* make of a directory in full-content mode, restore into a new directory
\* and forced delete, under either name
NextTwo ==
    \/ \E name \in TwoNames, tree \in TwoTrees, nc \in BOOLEAN :
         MakeStart(1, name, "dir", tree, FALSE, nc)
    \/ \E p \in Procs : MakeEnsureDir(p)
    \/ \E p \in Procs : MakeLoadIgnore(p)
    \/ \E p \in Procs : MakeProcessFile(p)
    \/ \E p \in Procs : MakeFinish(p)
    \/ \E name \in TwoNames : Restore(name, "none")
    \/ \E name \in TwoNames : Delete(name, TRUE, A_yes)

SpecTwo == Init /\ [][NextTwo]_vars

----------------------------------------------------------------------------
(* CompressData and DecompressData on arbitrary bytes                      *)

\* length of the byte sequences compressed
MaxDataLen == 3

\* the bytes of the sequences: zero, the two gzip magic bytes and a letter
CodecBytes == {0, 31, 97, 139}

\* every sequence of up to MaxDataLen bytes, and the shortest content make
\* compresses
CodecInputs ==
    UNION {[1..k -> CodecBytes] : k \in 0..MaxDataLen} \cup {C_large}

\* the namespace t1 exists and the file a.txt holds the bytes b
InitCodec ==
    /\ tdir = [n \in Locations |-> n = N_t1]
    /\ fdir = [n \in Locations |-> n = N_t1]
    /\ blobs = [n \in Locations |-> NoBlobs]
    /\ mfile = [n \in Locations |-> NoFile]
    /\ clock = 1
    /\ makes = 0
    /\ \E b \in CodecInputs :
         mk = [p \in Procs |->
                 IF p = 1 THEN [IdleMk EXCEPT !.name = N_t1,
                                              !.tree = <<File(P_a_txt, b)>>]
                 ELSE IdleMk]
    /\ made = [n \in Locations |-> NotMade]
    /\ last = NoLast
    /\ dest = NoDest

\* compression.CompressData on the file's bytes; the result is saved under
\* the content hash
CCompress ==
    /\ last.op = "none"
    /\ LET content == mk[1].tree[1].content
       IN  blobs' = [blobs EXCEPT ![N_t1] =
                       SaveFile(@, HashBytes(content), CompressData(content))]
    /\ last' = [NoLast EXCEPT !.op = "compress", !.name = N_t1]
    /\ UNCHANGED <<tdir, fdir, mfile, clock, makes, mk, made, dest>>

\* compression.DecompressData on the saved bytes; the result is written to
\* a.txt in the output directory
CDecompress ==
    /\ last.op = "compress"
    /\ LET content == mk[1].tree[1].content
           r == DecompressData(LoadFile(N_t1, HashBytes(content)).data)
       IN  /\ last' = [NoLast EXCEPT !.op = "decompress", !.name = N_t1,
                                     !.err = IF r.ok THEN ""
                                             ELSE "failed to decompress data"]
           /\ dest' = [kind |-> "dir",
                       files |-> IF r.ok THEN SaveFile(NoBlobs, P_a_txt, r.data)
                                 ELSE NoBlobs]
    /\ UNCHANGED <<store, clock, makes, mk, made>>

NextCodec == CCompress \/ CDecompress

SpecCodec == InitCodec /\ [][NextCodec]_vars

----------------------------------------------------------------------------
(* SaveManifest and LoadManifest on arbitrary manifests                    *)

\* the template names and file paths of the manifests saved: plain ASCII,
\* a Latin-1 e-acute (a byte that is not UTF-8), the same letter in UTF-8,
\* and a path with a quote and a less-than sign
MNames == {N_t1, <<116, 233>>}

MPaths == {P_a_txt, <<99, 233>>, <<99, 195, 169>>, <<97, 34, 60>>}

\* creation times: a few nanoseconds, a fraction that ends in zeros, and
\* more than a second
MTimes == {1, 120000000, NanosPerSec + 1}

\* the flags and sizes of an entry: stored raw, stored compressed, and
\* structure only
MEntries ==
    {[ic |-> TRUE, compressed |-> FALSE, originalSize |-> 2, storedSize |-> 2],
     [ic |-> TRUE, compressed |-> TRUE, originalSize |-> 100, storedSize |-> 6],
     [ic |-> FALSE, compressed |-> FALSE, originalSize |-> 2, storedSize |-> 0]}

InitManifest ==
    /\ tdir = [n \in Locations |-> n = N_t1]
    /\ fdir = [n \in Locations |-> n = N_t1]
    /\ blobs = [n \in Locations |-> NoBlobs]
    /\ mfile = [n \in Locations |-> NoFile]
    /\ clock = 1
    /\ makes = 0
    /\ \E name \in MNames, t \in MTimes :
         mk = [p \in Procs |-> IF p = 1
                               THEN [IdleMk EXCEPT !.m = NewManifest(name, t)]
                               ELSE IdleMk]
    /\ made = [n \in Locations |-> NotMade]
    /\ last = NoLast
    /\ dest = NoDest

\* Manifest.AddFile on the manifest to save
MAddFile(path, e) ==
    /\ last.op = "none"
    /\ Len(mk[1].m.files) < MaxEntries
    /\ mk' = [mk EXCEPT ![1].m = AddFile(@, path, HashBytes(C_small), e.ic,
                                         e.compressed, e.originalSize,
                                         e.storedSize)]
    /\ UNCHANGED <<store, clock, makes, made, last, dest>>

\* Storage.SaveManifest of the manifest into <base>/t1/manifest.json
MSave ==
    /\ last.op = "none"
    /\ mfile' = [mfile EXCEPT ![N_t1] = SaveManifest(mk[1].m)]
    /\ last' = [NoLast EXCEPT !.op = "save", !.name = N_t1]
    /\ UNCHANGED <<tdir, fdir, blobs, clock, makes, mk, made, dest>>

\* Storage.LoadManifest of that file; mk[2].m is the manifest returned
MLoad ==
    /\ last.op = "save"
    /\ LET r == LoadManifest(N_t1)
       IN  /\ mk' = [mk EXCEPT ![2].m = r.m]
           /\ last' = [NoLast EXCEPT !.op = "load", !.name = N_t1,
                                     !.err = IF r.ok THEN ""
                                             ELSE "failed to read manifest file"]
    /\ UNCHANGED <<store, clock, makes, made, dest>>

NextManifest ==
    \/ \E path \in MPaths, e \in MEntries : MAddFile(path, e)
    \/ MSave
    \/ MLoad

SpecManifest == InitManifest /\ [][NextManifest]_vars

----------------------------------------------------------------------------
(* GetCompressionStats and GetCompressionRatio on arbitrary manifests      *)

\* the flags and sizes of the entries added: those of MEntries, an empty
\* file stored raw, and a structure-only entry that carries the compressed
\* flag and a stored size
SEntries ==
    MEntries \cup
    {[ic |-> TRUE, compressed |-> FALSE, originalSize |-> 0, storedSize |-> 0],
     [ic |-> FALSE, compressed |-> TRUE, originalSize |-> 50, storedSize |-> 50]}

\* Manifest.GetCompressionStats and GetCompressionRatio on the manifest
\* built so far
SStats ==
    /\ last.op = "none"
    /\ last' = [NoLast EXCEPT !.op = "stats",
                              !.stats = GetCompressionStats(mk[1].m),
                              !.ratio = GetCompressionRatio(mk[1].m)]
    /\ UNCHANGED <<store, clock, makes, mk, made, dest>>

NextStats ==
    \/ \E e \in SEntries : MAddFile(P_a_txt, e)
    \/ SStats

SpecStats == InitManifest /\ [][NextStats]_vars

----------------------------------------------------------------------------
(* The walk of scanDirectory over a directory tree under the path filter   *)

P_root == <<46>>                       \* "."
P_d == <<100>>                         \* "d"
P_d_s == <<100, 47, 115>>              \* "d/s"
P_d_s_x == <<100, 47, 115, 47, 120>>   \* "d/s/x"
P_e_log == <<101, 46, 108, 111, 103>>  \* "e.log"

DirEntry(path) == [path |-> path, content |-> <<>>, isDir |-> TRUE]
FileEntry(path, content) == [path |-> path, content |-> content, isDir |-> FALSE]

\* directory trees as filepath.WalkDir visits them: the root first, each
\* directory before its entries, the entries of a directory in lexical order
WTrees ==
    { <<DirEntry(P_root), FileEntry(P_a_txt, C_small), DirEntry(P_d),
        FileEntry(P_d_c_txt, C_small)>>,
      <<DirEntry(P_root), DirEntry(P_d), DirEntry(P_d_s),
        FileEntry(P_d_s_x, C_gzip), FileEntry(P_e_log, C_small)>>,
      <<DirEntry(P_root), FileEntry(P_a_txt, C_small), DirEntry(P_d),
        FileEntry(P_d_c_txt, C_empty), DirEntry(P_d_s),
        FileEntry(P_d_s_x, C_gzip), FileEntry(P_e_log, C_small)>> }

\* the lines of .tmpltrignore: none, or one pattern
WIgnoreFiles ==
    { <<>>,
      << <<100, 47>> >>,                        \* d/
      << <<100, 47, 42>> >>,                    \* d/*
      << <<100, 47, 115>> >>,                   \* d/s
      << <<42, 46, 116, 120, 116>> >>,          \* *.txt
      << <<99, 46, 116, 120, 116>> >>,          \* c.txt
      << <<46>> >> }                            \* .

\* path lies below directory dir of the walk; every path lies below the root
IsUnder(path, dir) == dir = P_root \/ HasPrefix(path, dir \o <<47>>)

\* faulty variant of SkipDir: the walk goes on with the next entry
SkipDir_noPrune(tree, idx) == idx + 1

\* filepath.SkipDir returned for the directory tree[idx]: the walk goes on
\* with the first later entry that is not below it
SkipDir(tree, idx) ==
    IF \E j \in (idx + 1)..Len(tree) : ~IsUnder(tree[j].path, tree[idx].path)
    THEN CHOOSE j \in (idx + 1)..Len(tree) :
           /\ ~IsUnder(tree[j].path, tree[idx].path)
           /\ \A k \in (idx + 1)..(j - 1) : IsUnder(tree[k].path, tree[idx].path)
    ELSE Len(tree) + 1

\* runMake on a directory tree, up to the name-in-use check
WMakeStart ==
    /\ makes = 0
    /\ \E tree \in WTrees,
          f \in {<<FALSE, FALSE>>, <<FALSE, TRUE>>, <<TRUE, FALSE>>} :
         MakeStart(1, N_t1, "dir", tree, f[1], f[2])

\* AddDefaultPatterns, then LoadIgnoreFile: the patterns of .tmpltrignore
\* follow the default ones; reading the file can fail
WLoadIgnore(p) ==
    /\ mk[p].pc = "ignore"
    /\ \E lines \in WIgnoreFiles, ok \in BOOLEAN :
         IF ok THEN mk' = [mk EXCEPT ![p].pc = "scan", ![p].idx = 1,
                                     ![p].patterns = defaultPatterns \o lines]
         ELSE MakeReturn(p, "failed to load ignore file")
    /\ UNCHANGED <<store, clock, makes, made, last, dest>>

\* the callback of the walk on a directory: an unreadable directory ends the
\* walk with an error, an ignored one is pruned
WalkDirectory(p) ==
    /\ mk[p].pc = "scan"
    /\ mk[p].idx <= Len(mk[p].tree)
    /\ mk[p].tree[mk[p].idx].isDir
    /\ \E readable \in BOOLEAN :
         IF ~readable THEN MakeReturn(p, "failed to scan directory")
         ELSE mk' = [mk EXCEPT ![p].idx =
                       IF ShouldIgnore(mk[p].patterns, mk[p].tree[mk[p].idx].path)
                       THEN SkipDir(mk[p].tree, mk[p].idx)
                       ELSE mk[p].idx + 1]
    /\ UNCHANGED <<store, clock, makes, made, last, dest>>

\* the callback of the walk on a file: an ignored file is passed over, any
\* other goes to processFile
WalkFile(p) ==
    /\ mk[p].pc = "scan"
    /\ mk[p].idx <= Len(mk[p].tree)
    /\ ~mk[p].tree[mk[p].idx].isDir
    /\ IF ShouldIgnore(mk[p].patterns, mk[p].tree[mk[p].idx].path)
       THEN /\ mk' = [mk EXCEPT ![p].idx = @ + 1]
            /\ UNCHANGED <<store, clock, makes, made, last, dest>>
       ELSE MakeProcessFile(p)

NextWalk ==
    \/ WMakeStart
    \/ MakeEnsureDir(1)
    \/ WLoadIgnore(1)
    \/ WalkDirectory(1)
    \/ WalkFile(1)
    \/ MakeFinish(1)

SpecWalk == Init /\ [][NextWalk]_vars

----------------------------------------------------------------------------
(* Two make invocations running at the same time                           *)

\* the trees given to the concurrent invocations
CTrees ==
    { <<File(P_a_txt, C_small)>>,
      <<File(P_a_txt, C_small), File(P_d_c_txt, C_small)>> }

\* runMake of process p up to the name-in-use check, whatever the other
\* process is doing
CMakeStart(p, name, tree, ic, nc) ==
    /\ mk[p].pc = "idle"
    /\ makes < MaxMakes
    /\ makes' = makes + 1
    /\ LET start == [IdleMk EXCEPT !.name = name,
                                   !.existed = TemplateExists(name),
                                   !.pre = store,
                                   !.tree = tree, !.ignoreContents = ic,
                                   !.noCompression = nc]
           err == MakeRejection(name, "dir")
       IN  mk' = [mk EXCEPT ![p] =
                    IF err # ""
                    THEN [IdleMk EXCEPT !.pc = "done", !.err = err,
                                        !.name = name,
                                        !.existed = TemplateExists(name),
                                        !.pre = store]
                    ELSE [start EXCEPT !.pc = "ensure"]]
    /\ last' = [NoLast EXCEPT !.op = "make", !.name = name]
    /\ dest' = NoDest
    /\ UNCHANGED <<store, clock, made>>

\* what processFile decides for one file once Storage.FileExists has
\* answered exists for its content key
processFileOn(exists, file, ic, nc) ==
    LET originalSize == Len(file.content)
        fileHash == ContentKey(file, ic)
        entry == [hash |-> fileHash, includeContents |-> ~ic,
                  originalSize |-> originalSize,
                  write |-> ~exists,
                  bytes |-> <<>>, compressed |-> FALSE, storedSize |-> 0]
    IN  IF ic THEN entry
        ELSE IF ~exists
        THEN IF nc
             THEN [entry EXCEPT !.bytes = file.content,
                                !.storedSize = originalSize]
             ELSE LET r == SaveFileWithCompression(file.path, file.content)
                  IN  [entry EXCEPT !.bytes = r.bytes,
                                    !.compressed = r.compressed,
                                    !.storedSize = r.storedSize]
        ELSE [entry EXCEPT !.compressed = ~nc, !.storedSize = originalSize]

\* processFile of process p up to the answer of Storage.FileExists: the file
\* is read and its content key looked up in the pool
CCheckBlob(p) ==
    /\ mk[p].pc = "scan"
    /\ mk[p].idx <= Len(mk[p].tree)
    /\ \E outcome \in {"ok", "read_fail"} :
         IF outcome = "ok"
         THEN mk' = [mk EXCEPT
                       ![p].pc = "write",
                       ![p].hit = FileExists(mk[p].name,
                                    ContentKey(mk[p].tree[mk[p].idx],
                                               mk[p].ignoreContents))]
         ELSE MakeReturn(p, "failed to scan directory")
    /\ UNCHANGED <<store, clock, makes, made, last, dest>>

\* the rest of processFile of process p: the blob is written unless the
\* lookup found it, then the entry is added
CWriteBlob(p) ==
    /\ mk[p].pc = "write"
    /\ LET n == mk[p].name
           file == mk[p].tree[mk[p].idx]
           r == processFileOn(mk[p].hit, file, mk[p].ignoreContents,
                              mk[p].noCompression)
       IN  \E outcome \in {"ok", "write_fail", "write_fail_partial"} :
             /\ outcome \in {"write_fail", "write_fail_partial"} => r.write
             /\ blobs' = [blobs EXCEPT ![n] =
                            IF outcome = "ok" /\ r.write
                            THEN SaveFile(@, r.hash, r.bytes)
                            ELSE IF outcome = "write_fail_partial"
                            THEN SaveFile(@, r.hash, <<>>)
                            ELSE @]
             /\ IF outcome = "ok"
                THEN mk' = [mk EXCEPT
                              ![p].pc = "scan",
                              ![p].idx = @ + 1,
                              ![p].m = AddFile(@, file.path, r.hash,
                                               r.includeContents, r.compressed,
                                               r.originalSize, r.storedSize)]
                ELSE MakeReturn(p, "failed to scan directory")
    /\ UNCHANGED <<tdir, fdir, mfile, clock, makes, made, last, dest>>

NextConcurrent ==
    \/ \E p \in Procs, tree \in CTrees, ic \in BOOLEAN :
         CMakeStart(p, N_t1, tree, ic, FALSE)
    \/ \E p \in Procs : MakeEnsureDir(p)
    \/ \E p \in Procs : MakeLoadIgnore(p)
    \/ \E p \in Procs : CCheckBlob(p)
    \/ \E p \in Procs : CWriteBlob(p)
    \/ \E p \in Procs : MakeFinish(p)

SpecConcurrent == Init /\ [][NextConcurrent]_vars

----------------------------------------------------------------------------
(* delete on whatever standard input holds                                 *)

\* standard input at the confirmation prompt: lines that spell yes in some
\* case and with white space around, other lines, and inputs that end
\* before a line feed
DInputs ==
    { A_yes,
      <<89, 69, 83, 10>>,                 \* "YES\n"
      <<32, 89, 101, 115, 32, 13, 10>>,   \* " Yes \r\n"
      <<121, 101, 115, 10, 110, 111, 10>>, \* "yes\nno\n"
      A_no,
      <<121, 10>>,                        \* "y\n"
      <<10>>,                             \* "\n"
      <<121, 101, 115, 33, 10>>,          \* "yes!\n"
      <<110, 111, 10, 121, 101, 115, 10>>, \* "no\nyes\n"
      <<121, 101, 115>>,                  \* "yes", then end of input
      <<110, 111>>,                       \* "no", then end of input
      <<>> }                              \* end of input

DTrees ==
    { <<File(P_a_txt, C_small)>>,
      <<File(P_a_txt, C_small), File(P_d_c_txt, C_large)>> }

NextDelete ==
    \/ \E tree \in DTrees, ic \in BOOLEAN :
         MakeStart(1, N_t1, "dir", tree, ic, FALSE)
    \/ MakeEnsureDir(1)
    \/ MakeLoadIgnore(1)
    \/ MakeProcessFile(1)
    \/ MakeFinish(1)
    \/ \E force \in BOOLEAN, input \in DInputs : Delete(N_t1, force, input)

SpecDelete == Init /\ [][NextDelete]_vars

----------------------------------------------------------------------------
(* delete and restore on names that are not names of direct children       *)

\* template names given to delete and restore: a plain name, three names
\* with a path separator, one of which leads out of the base directory, and a
\* name with a leading dot
PNames ==
    { N_t1,
      <<46, 47, 116, 49>>,                    \* "./t1"
      <<116, 50, 47, 46, 46, 47, 116, 49>>,   \* "t2/../t1"
      N_out,                                  \* "../x"
      <<46, 116>> }                           \* ".t"

\* the manifest and the blob of a template directory that was copied to the
\* directory beside the base directory
OutManifest ==
    AddFile(NewManifest(<<120>>, 0), P_a_txt, HashBytes(C_small),
            TRUE, FALSE, 2, 2)

InitPaths ==
    /\ tdir = [n \in Locations |-> n = N_out]
    /\ fdir = [n \in Locations |-> n = N_out]
    /\ blobs = [n \in Locations |->
                  IF n = N_out THEN (HashBytes(C_small) :> C_small) ELSE NoBlobs]
    /\ mfile = [n \in Locations |->
                  IF n = N_out THEN SaveManifest(OutManifest) ELSE NoFile]
    /\ clock = 1
    /\ makes = 0
    /\ mk = [p \in Procs |-> IdleMk]
    /\ made = [n \in Locations |-> NotMade]
    /\ last = NoLast
    /\ dest = NoDest

NextPaths ==
    \/ \E tree \in DTrees, ic \in BOOLEAN :
         MakeStart(1, N_t1, "dir", tree, ic, FALSE)
    \/ MakeEnsureDir(1)
    \/ MakeLoadIgnore(1)
    \/ MakeProcessFile(1)
    \/ MakeFinish(1)
    \/ \E name \in PNames : Delete(name, TRUE, A_yes)
    \/ \E name \in PNames : Restore(name, "none")

SpecPaths == InitPaths /\ [][NextPaths]_vars

----------------------------------------------------------------------------
(* Properties                                                              *)

\* the files of a source tree as a function from relative path to bytes
TreeFiles(tree) ==
    [path \in {tree[i].path : i \in 1..Len(tree)} |->
        tree[CHOOSE i \in 1..Len(tree) : tree[i].path = path].content]

\* the same paths, every file empty
EmptyFiles(tree) ==
    [path \in {tree[i].path : i \in 1..Len(tree)} |-> <<>>]

\* template n was created by a make in full-content mode whose
\* EnsureTemplateDir found no directory of that name
FullContentNew(n) ==
    made[n].ok /\ ~made[n].ignoreContents /\ made[n].fresh

\* the last command was a restore of template n into a nonexistent or empty
\* output directory
RestoredFresh(n) ==
    last.op = "restore" /\ last.name = n /\ last.destKind \in {"none", "empty"}

\* C1 (as claimed): a restore into a nonexistent or empty directory of a
\* template that make created in full-content mode under a new name succeeds
\* and leaves exactly the source tree's paths, each with the source bytes.
C1_RoundTrip ==
    \A n \in StoreNames :
        FullContentNew(n) /\ RestoredFresh(n) =>
            /\ last.err = ""
            /\ dest.files = TreeFiles(made[n].tree)

\* C2 (as claimed): in every manifest make has saved, an entry flagged
\* compressed references a blob that is CompressData of the source file's
\* bytes and that DecompressData accepts; and a restore that ran to the end
\* passed to DecompressData exactly the entries flagged compressed.
C2_CompressedFlagIsTrue ==
    \A n \in StoreNames :
        made[n].ok =>
            LET files == LoadManifest(n).m.files
            IN  /\ \A i \in 1..Len(files) :
                     files[i].compressed =>
                        /\ FileExists(n, files[i].hash)
                        /\ blobs[n][files[i].hash] =
                              CompressData(made[n].tree[i].content)
                        /\ DecompressData(blobs[n][files[i].hash]).ok
                /\ RestoredFresh(n) /\ last.err = "" =>
                     last.decoded =
                        {files[i].original_path : i \in
                            {j \in 1..Len(files) : files[j].compressed}}

\* C3: after a make in full-content mode under a new name, the blob pool
\* holds exactly one blob per distinct content of the tree, and files with
\* identical content have manifest entries with the same hash.
C3_Dedup ==
    \A n \in StoreNames :
        FullContentNew(n) =>
            LET tree == made[n].tree
                files == LoadManifest(n).m.files
                contents == {tree[i].content : i \in 1..Len(tree)}
            IN  /\ Len(files) = Len(tree)
                /\ Cardinality(DOMAIN blobs[n]) = Cardinality(contents)
                /\ DOMAIN blobs[n] = {files[i].hash : i \in 1..Len(files)}
                /\ \A i, j \in 1..Len(tree) :
                     (tree[i].content = tree[j].content) <=>
                        (files[i].hash = files[j].hash)

\* C3 witness: a template made from a tree with two files of identical
\* content, one blob in its pool
C3_Witness ==
    /\ FullContentNew(N_t1)
    /\ Len(made[N_t1].tree) = 2
    /\ made[N_t1].tree[1].content = made[N_t1].tree[2].content
    /\ Cardinality(DOMAIN blobs[N_t1]) = 1

\* C4: after make --ignore-contents every manifest entry has
\* include_contents = FALSE, and a restore into a nonexistent or empty
\* directory succeeds and leaves a zero-length file at every source path.
C4_StructureOnly ==
    \A n \in StoreNames :
        made[n].ok /\ made[n].ignoreContents =>
            LET files == LoadManifest(n).m.files
            IN  /\ \A i \in 1..Len(files) : ~files[i].include_contents
                /\ RestoredFresh(n) =>
                     /\ last.err = ""
                     /\ dest.files = EmptyFiles(made[n].tree)

\* C4 witness: a structure-only template of a tree with a non-empty file
\* has been restored
C4_Witness ==
    /\ made[N_t1].ok /\ made[N_t1].ignoreContents
    /\ RestoredFresh(N_t1)
    /\ \E i \in 1..Len(made[N_t1].tree) :
         /\ Len(made[N_t1].tree[i].content) >= MinCompressSize
         /\ dest.files[made[N_t1].tree[i].path] = <<>>

\* the errors of the steps of make that come before the manifest is saved:
\* target and name validation, namespace creation, ignore-file loading,
\* scanning and blob writes, manifest validation
TargetErrors ==
    {"target directory does not exist", "target path is not a directory"}

NameErrors ==
    {"template name cannot be empty", "template name contains invalid characters",
     "template name cannot start with a dot"}

EarlyErrors ==
    TargetErrors \cup NameErrors \cup
    {"failed to create template directory", "failed to load ignore file",
     "failed to scan directory", "invalid manifest generated"}

\* make has returned with one of the errors of EarlyErrors
MakeFailedEarly(p) == mk[p].pc = "done" /\ mk[p].err \in EarlyErrors

\* C5 (as claimed): after a make that failed before the manifest was saved,
\* TemplateExists(name) is false and ListTemplates does not hold the name.
C5_FailedMakeNoTemplate ==
    \A p \in Procs :
        MakeFailedEarly(p) =>
            /\ ~TemplateExists(mk[p].name)
            /\ mk[p].name \notin ListTemplates

\* C5 (amended): after a make that failed before the manifest was saved, for
\* a name under which no template existed when make was called,
\* TemplateExists(name) is false and ListTemplates does not hold the name.
C5_FailedMakeCreatesNoTemplate ==
    \A p \in Procs :
        MakeFailedEarly(p) /\ ~mk[p].existed =>
            /\ ~TemplateExists(mk[p].name)
            /\ mk[p].name \notin ListTemplates

\* C5 witness: make failed during the scan after it had created the
\* namespace and written a blob
C5_Witness ==
    /\ mk[1].pc = "done"
    /\ mk[1].err = "failed to scan directory"
    /\ ~mk[1].existed
    /\ mk[1].name = N_t1
    /\ tdir[N_t1]
    /\ DOMAIN blobs[N_t1] # {}

\* C6 (as claimed): a make under the name of a template that make created
\* fails with 'already exists'.
C6_RemakeAlreadyExists ==
    \A p \in Procs :
        /\ mk[p].pc = "done"
        /\ mk[p].name \in StoreNames
        /\ mk[p].existed
        /\ made[mk[p].name].ok
        => mk[p].err = "already exists"

\* a step in which delete removes template n
DeleteStep(n) ==
    /\ last'.op = "delete" /\ last'.name = n
    /\ last'.err = "" /\ ~last'.cancelled /\ ~made'[n].ok

\* a step in which a make under name n is called
MakeCallStep(p, n) ==
    makes' = makes + 1 /\ mk'[p].name = n /\ mk'[p].pc # "idle"

\* C6 (amended): once make has succeeded for a name, every later make with
\* that name fails, with 'already exists' unless its target directory is
\* rejected first; and no step other than a delete of that name changes the
\* template's manifest or blob pool.
C6_Immutable ==
    [][\A n \in StoreNames :
          made[n].ok =>
            /\ \A p \in Procs :
                 MakeCallStep(p, n) =>
                    /\ mk'[p].pc = "done"
                    /\ mk'[p].err \in TargetErrors \cup {"already exists"}
            /\ \/ mfile'[n] = mfile[n] /\ blobs'[n] = blobs[n] /\ made'[n] = made[n]
               \/ DeleteStep(n)]_vars

\* C6 witness: a make under the name of an existing template has returned
\* 'already exists' and the template is still there
C6_Witness ==
    /\ mk[1].pc = "done"
    /\ mk[1].err = "already exists"
    /\ mk[1].name = N_t1
    /\ made[N_t1].ok
    /\ mfile[N_t1].state = "valid"

\* C7: after a delete that succeeded the template directory, the blob pool
\* directory, every blob and the manifest are gone, TemplateExists is false
\* and ListTemplates does not hold the name; and a make under a name with no
\* template is not rejected as 'already exists'.
C7_DeleteRemovesAll ==
    /\ last.op = "delete" /\ last.err = "" /\ ~last.cancelled =>
         /\ ~tdir[last.name]
         /\ ~fdir[last.name]
         /\ blobs[last.name] = NoBlobs
         /\ mfile[last.name] = NoFile
         /\ ~TemplateExists(last.name)
         /\ last.name \notin ListTemplates
    /\ \A p \in Procs :
         mk[p].pc # "idle" /\ ~mk[p].existed => mk[p].err # "already exists"

\* C7 witness: a template was deleted and make has created it again
C7_Witness ==
    /\ made[N_t1].ok
    /\ made[N_t1].deleted
    /\ TemplateExists(N_t1)

\* C8 (as claimed): TemplateExists(name) is true exactly when the manifest of
\* that name is present and loads.
C8_ExistsIffLoadable ==
    \A n \in StoreNames : TemplateExists(n) <=> LoadManifest(n).ok

\* C9 (as claimed): ListTemplates returns exactly the subdirectories whose
\* manifest is present and loads.
C9_ListOnlyLoadable ==
    last.op = "list" =>
        last.listed = {n \in StoreNames : tdir[n] /\ LoadManifest(n).ok}

\* a manifest that breaks one of the rules C10 lists
BadManifest(m) ==
    \/ m.name = <<>>
    \/ Len(m.files) = 0
    \/ \E i \in 1..Len(m.files) : m.files[i].original_path = <<>>
    \/ \E i, j \in 1..Len(m.files) :
         i # j /\ m.files[i].original_path = m.files[j].original_path
    \/ \E i \in 1..Len(m.files) : IsAbs(m.files[i].original_path)
    \/ \E i \in 1..Len(m.files) :
         m.files[i].include_contents /\ m.files[i].hash = <<>>

\* C10: ValidateManifest returns an error for every manifest with an empty
\* name, an empty file list, an entry with an empty original_path, two
\* entries with the same original_path, an absolute original_path, or a
\* content-bearing entry with an empty hash.
C10_ValidateRejects ==
    last.op = "validate" /\ BadManifest(mk[1].m) => last.err # ""

\* C10 witness: a manifest with a non-empty name whose two entries have the
\* same relative path and non-empty hashes has been rejected
C10_Witness ==
    /\ last.op = "validate"
    /\ last.err # ""
    /\ mk[1].m.name # <<>>
    /\ Len(mk[1].m.files) = 2
    /\ mk[1].m.files[1].original_path = mk[1].m.files[2].original_path
    /\ ~IsAbs(mk[1].m.files[1].original_path)
    /\ mk[1].m.files[1].original_path # <<>>
    /\ \A i \in 1..2 : mk[1].m.files[i].hash # <<>>

----------------------------------------------------------------------------
\* the errors of runMake that reject its input: the target directory, the
\* template name, or the manifest built by the scan
ValidationErrors ==
    TargetErrors \cup NameErrors \cup {"invalid manifest generated"}

\* C11: whenever make has failed with a validation error (malformed template
\* name, missing or non-directory target, or a scanned manifest that fails
\* validation), the store's directories, blobs and manifests are identical
\* to what they were before the call.
C11_ValidationNoSideEffect ==
    \A p \in Procs :
      mk[p].pc = "done" /\ mk[p].err \in ValidationErrors
        => store = mk[p].pre

\* a step that is a call of restore or delete under a name for which
\* TemplateExists is false
MissingNameStep(n) ==
    /\ last'.op \in {"restore", "delete"}
    /\ last'.name = n
    /\ ~TemplateExists(n)

OutputErrors ==
    {"output path exists but is not a directory", "output directory is not empty"}

\* C13: restore accepts only an output path that does not exist or is an
\* empty directory: on an existing file or a directory with an entry it
\* fails with a validation error (not with an error of loading the manifest
\* or of restoring a file) and the output path is left as it was; and it
\* reports the output path in no other case.
C13_RestoreRejectsUsedOutput ==
    last.op = "restore" =>
      /\ last.destKind \in {"file", "nonempty"} =>
           /\ last.err \in OutputErrors \cup {"template name cannot be empty"}
           /\ dest = InitialDest(last.destKind)
      /\ last.err \in OutputErrors => last.destKind \in {"file", "nonempty"}

\* C13 witness: restore of a loadable template into a directory that holds
\* an entry was rejected and the directory holds what it held
C13_Witness ==
    /\ last.op = "restore"
    /\ last.name = N_t1
    /\ LoadManifest(N_t1).ok
    /\ last.destKind = "nonempty"
    /\ last.err = "output directory is not empty"
    /\ dest = InitialDest("nonempty")

\* what restoreFile writes for a manifest entry of template n: [ok, data]
RestoredBytes(n, fileEntry) ==
    IF fileEntry.include_contents
    THEN LoadFileWithDecompression(n, fileEntry.hash, fileEntry.compressed)
    ELSE [ok |-> TRUE, data |-> <<>>]

\* C14: restore takes the manifest entries in stored order and stops at the
\* first one that fails: the error names that entry's file, every entry
\* before it is in the output directory with its restored bytes, the
\* failing entry and every entry after it are not, and the output directory
\* is left in place.  A restore that returns no error has written every
\* entry.
C14_RestoreAbortsAtFirstFailure ==
    last.op = "restore" /\ last.err \in {"", "failed to restore file"} =>
      LET n == last.name
          files == LoadManifest(n).m.files
          bad == {i \in 1..Len(files) : ~RestoredBytes(n, files[i]).ok}
          k == IF bad = {} THEN Len(files) + 1
               ELSE CHOOSE i \in bad : \A j \in bad : i <= j
      IN  /\ dest.kind = "dir"
          /\ (last.err = "") <=> (bad = {})
          /\ bad # {} => last.failed = files[k].original_path
          /\ DOMAIN dest.files = {files[i].original_path : i \in 1..(k - 1)}
          /\ \A i \in 1..(k - 1) :
               dest.files[files[i].original_path] = RestoredBytes(n, files[i]).data

\* C14 witness: a restore failed on the second entry of a manifest; the
\* file of the first entry is in the output directory and the second is not
C14_Witness ==
    /\ last.op = "restore"
    /\ last.err = "failed to restore file"
    /\ Len(LoadManifest(last.name).m.files) = 2
    /\ last.failed = LoadManifest(last.name).m.files[2].original_path
    /\ LoadManifest(last.name).m.files[1].original_path \in DOMAIN dest.files
    /\ last.failed \notin DOMAIN dest.files

\* the manifests make has built: those saved in the store and those under
\* construction
ManifestsOfMake ==
    {LoadManifest(n).m : n \in {x \in StoreNames : mfile[x].state = "valid"}}
      \cup {mk[p].m : p \in Procs}

\* C15: in every manifest built by make, every entry with
\* include_contents = false has compressed = false and stored_size = 0.
C15_StructureEntriesUnstored ==
    \A m \in ManifestsOfMake :
      \A i \in 1..Len(m.files) :
        ~m.files[i].include_contents =>
          ~m.files[i].compressed /\ m.files[i].stored_size = 0

\* C15 witness: a saved manifest holds a structure-only entry of a file
\* that is not empty
C15_Witness ==
    /\ mfile[N_t1].state = "valid"
    /\ Len(LoadManifest(N_t1).m.files) >= 1
    /\ ~LoadManifest(N_t1).m.files[1].include_contents
    /\ LoadManifest(N_t1).m.files[1].original_size > 0

\* C16 (as claimed): in every manifest built by make, in either content
\* mode, every entry with compressed = false has stored_size equal to
\* original_size.
C16_UncompressedSizesEqual ==
    \A m \in ManifestsOfMake :
      \A i \in 1..Len(m.files) :
        ~m.files[i].compressed =>
          m.files[i].stored_size = m.files[i].original_size

\* C16 (amended): in every manifest built by make, every entry with
\* include_contents = true and compressed = false has stored_size equal to
\* original_size.
C16_StoredUncompressedSizesEqual ==
    \A m \in ManifestsOfMake :
      \A i \in 1..Len(m.files) :
        m.files[i].include_contents /\ ~m.files[i].compressed =>
          m.files[i].stored_size = m.files[i].original_size

\* C16 witness: a saved manifest holds a content-bearing uncompressed entry
\* of a file of the size at which compression starts, made under
\* --no-compression
C16_Witness ==
    /\ mfile[N_t1].state = "valid"
    /\ made[N_t1].ok
    /\ made[N_t1].noCompression
    /\ Len(LoadManifest(N_t1).m.files) >= 1
    /\ LoadManifest(N_t1).m.files[1].include_contents
    /\ ~LoadManifest(N_t1).m.files[1].compressed
    /\ LoadManifest(N_t1).m.files[1].original_size = MinCompressSize

\* a name that is empty, holds one of the characters / \ : * ? " < > | or
\* begins with a dot
MalformedName(name) ==
    \/ name = <<>>
    \/ \E i \in 1..Len(name) : name[i] \in {47, 92, 58, 42, 63, 34, 60, 62, 124}
    \/ name # <<>> /\ name[1] = 46

\* C17: make rejects every template name that is empty, holds one of the
\* characters / \ : * ? " < > | or begins with a dot, and the store is then
\* as the call found it; every other name passes the name check, so that
\* on an empty store make goes on to create the namespace unless the target
\* directory was rejected.
C17_NameValidation ==
    \A p \in Procs :
      mk[p].pc # "idle" =>
        /\ MalformedName(mk[p].name) =>
             /\ mk[p].pc = "done"
             /\ mk[p].err \in NameErrors \cup TargetErrors
             /\ store = mk[p].pre
        /\ ~MalformedName(mk[p].name) =>
             /\ mk[p].err \notin NameErrors
             /\ mk[p].pc = "ensure" \/ mk[p].err \in TargetErrors

\* C17 witness: a name whose second byte is a slash was rejected as holding
\* an invalid character
C17_Witness ==
    /\ mk[1].pc = "done"
    /\ mk[1].name = <<97, 47>>
    /\ mk[1].err = "template name contains invalid characters"
    /\ store = mk[1].pre

\* the part of the store under the name n
Namespace(n) == <<tdir[n], fdir[n], blobs[n], mfile[n]>>

\* a make invocation under the name n is between its first and last step
MakeRunning(n) ==
    \E p \in Procs : mk[p].name = n /\ mk[p].pc \notin {"idle", "done"}

\* make flagged no entry of template n as compressed on a dedup hit
NoFlaggedDuplicate(n) ==
    \/ made[n].noCompression
    \/ \A i, j \in 1..Len(made[n].tree) :
         made[n].tree[i].content = made[n].tree[j].content => i = j

C19_CodecRoundTrip ==
    LET content == mk[1].tree[1].content
        stored == blobs[N_t1][HashBytes(content)]
    IN  /\ last.op = "decompress" =>
             /\ last.err = ""
             /\ dest.files = TreeFiles(mk[1].tree)
        /\ last.op \in {"compress", "decompress"} /\ content = <<>> =>
             stored = <<>>

\* C19 witness: bytes that themselves open with the gzip magic number were
\* compressed and came back unchanged
C19_Witness ==
    /\ last.op = "decompress"
    /\ last.err = ""
    /\ mk[1].tree[1].content = <<31, 139, 97>>
    /\ dest.files[P_a_txt] = <<31, 139, 97>>
    /\ blobs[N_t1][HashBytes(<<31, 139, 97>>)] # <<31, 139, 97>>

\* C20 (as claimed): a manifest that was saved and loaded back is equal to
\* the one saved: the same name, the same created_at to the nanosecond, and
\* the same entries in the same order with their six fields unchanged.
C20_ManifestRoundTrip ==
    last.op = "load" =>
      /\ last.err = ""
      /\ mk[2].m.name = mk[1].m.name
      /\ mk[2].m.created_at = mk[1].m.created_at
      /\ mk[2].m.files = mk[1].m.files

\* the sum of val[i] over the indices i of S
RECURSIVE SetSum(_, _)
SetSum(S, val) ==
    IF S = {} THEN 0
    ELSE LET x == CHOOSE y \in S : TRUE
         IN  val[x] + SetSum(S \ {x}, val)

\* C21: after any sequence of AddFile calls GetCompressionStats returns the
\* number of entries with include_contents and compressed both true and
\* the sums of original_size and of stored_size over the entries with
\* include_contents = true only; GetCompressionRatio is the second sum
\* divided by the first, and 0 when the first is 0.
C21_CompressionStats ==
    last.op = "stats" =>
      LET files == mk[1].m.files
          content == {i \in 1..Len(files) : files[i].include_contents}
          sumOriginal == SetSum(content, [i \in content |-> files[i].original_size])
          sumStored == SetSum(content, [i \in content |-> files[i].stored_size])
      IN  /\ last.stats.compressedFiles
               = Cardinality({i \in content : files[i].compressed})
          /\ last.stats.originalSize = sumOriginal
          /\ last.stats.storedSize = sumStored
          /\ IF sumOriginal = 0 THEN last.ratio = [num |-> 0, den |-> 1]
             ELSE last.ratio.num * sumOriginal = sumStored * last.ratio.den

\* C21 witness: the statistics of a manifest with a compressed entry of 100
\* bytes and a structure-only entry that carries sizes count the first only
C21_Witness ==
    /\ last.op = "stats"
    /\ Len(mk[1].m.files) = 2
    /\ mk[1].m.files[1].include_contents /\ mk[1].m.files[1].compressed
    /\ ~mk[1].m.files[2].include_contents /\ mk[1].m.files[2].stored_size > 0
    /\ last.stats = [compressedFiles |-> 1, originalSize |-> 100, storedSize |-> 6]
    /\ last.ratio = [num |-> 6, den |-> 100]

----------------------------------------------------------------------------
\* C22 as stated: ValidateManifest returns no error for every manifest with
\* a non-empty name, at least one entry, every original_path non-empty,
\* relative and unique, and a non-empty hash on every content-bearing
\* entry; a structure-only entry needs no hash.
C22_AcceptsWithoutStructureHash ==
    last.op = "validate" /\ ~BadManifest(mk[1].m) => last.err = ""

\* C22: ValidateManifest returns no error for every manifest with a
\* non-empty name, at least one entry, every original_path non-empty,
\* relative and unique, and a non-empty hash on every entry, content-bearing
\* or structure-only; a structure-only entry with an empty hash is rejected.
C22_ValidateAccepts ==
    last.op = "validate" =>
      LET m == mk[1].m
          hashed == \A i \in 1..Len(m.files) : m.files[i].hash # <<>>
      IN  /\ ~BadManifest(m) /\ hashed => last.err = ""
          /\ ~BadManifest(m) /\ ~hashed => last.err = "file hash cannot be empty"

\* C22 witness: a manifest of a content-bearing and a structure-only entry,
\* both hashed, under distinct relative paths has been accepted
C22_Witness ==
    /\ last.op = "validate"
    /\ last.err = ""
    /\ Len(mk[1].m.files) = 2
    /\ mk[1].m.files[1].include_contents
    /\ ~mk[1].m.files[2].include_contents
    /\ mk[1].m.files[1].original_path # mk[1].m.files[2].original_path

----------------------------------------------------------------------------
\* the files of a directory tree that the filter does not skip and that lie
\* below no directory the filter skips, in walk order
Surviving(tree, patterns) ==
    LET keep(f) ==
          /\ ~f.isDir
          /\ ~ShouldIgnore(patterns, f.path)
          /\ \A j \in 1..Len(tree) :
               tree[j].isDir /\ IsUnder(f.path, tree[j].path)
                 => ~ShouldIgnore(patterns, tree[j].path)
    IN  SelectSeq(tree, keep)

\* the content keys of a sequence of files
KeysOf(files, ic) == {ContentKey(files[i], ic) : i \in 1..Len(files)}

\* the original paths of the entries of a manifest, in order
EntryPaths(m) == [i \in 1..Len(m.files) |-> m.files[i].original_path]

\* C23: during make's traversal a directory the filter skips is pruned with
\* its subtree and a file it skips is omitted: every blob written is the
\* blob of a file that is not skipped and has no skipped ancestor
\* directory, and the manifest of a successful make has an entry for
\* exactly those files.
C23_FilterPrunes ==
    /\ [](\A n \in StoreNames :
            made[n].ok =>
              LET keep == Surviving(made[n].tree, mk[1].patterns)
              IN  /\ LoadManifest(n).ok
                  /\ EntryPaths(LoadManifest(n).m)
                       = [i \in 1..Len(keep) |-> keep[i].path]
                  /\ DOMAIN blobs[n] = KeysOf(keep, made[n].ignoreContents))
    /\ [][\A n \in StoreNames :
            \A h \in DOMAIN blobs'[n] \ DOMAIN blobs[n] :
              /\ mk[1].pc = "scan"
              /\ h \in KeysOf(Surviving(mk[1].tree, mk[1].patterns),
                              mk[1].ignoreContents)]_vars

\* C23 witness: with the pattern d/* the tree of a.txt, d/c.txt, d/s/x and
\* e.log has been made into a template of a.txt alone, although the filter
\* does not skip d/s/x itself
C23_Witness ==
    /\ made[N_t1].ok
    /\ Len(made[N_t1].tree) = 7
    /\ ~ShouldIgnore(mk[1].patterns, P_d_s_x)
    /\ ShouldIgnore(mk[1].patterns, P_d_s)
    /\ ~ShouldIgnore(mk[1].patterns, P_d)
    /\ EntryPaths(LoadManifest(N_t1).m) = <<P_a_txt>>
    /\ Cardinality(DOMAIN blobs[N_t1]) = 1

----------------------------------------------------------------------------
\* C24: once EnsureTemplateDir has succeeded for a name that did not exist
\* in the store, TemplateExists answers true for that name, before any
\* manifest has been saved.
C24_ExistsAfterEnsureDir ==
    \A p \in Procs :
      mk[p].pc = "ignore" /\ ~mk[p].existed => TemplateExists(mk[p].name)

----------------------------------------------------------------------------
\* C25: the name-in-use check and the creation of the namespace, and the
\* blob lookup and the blob write, are separate steps: with two make
\* invocations for one new name running at the same time, every invocation
\* that reports success has passed the name-in-use check, a blob write
\* stores the blob whatever the other invocation wrote since the lookup, and
\* a manifest write puts the writer's manifest in place of the one that is
\* there.
C25_ChecksNotAtomic ==
    /\ [](\A p \in Procs :
            mk[p].pc = "done" /\ mk[p].err = "" => ~mk[p].existed)
    /\ [][\A p \in Procs :
            /\ mk[p].pc = "write" /\ mk'[p].pc = "scan" /\ ~mk[p].hit
                 => LET key == ContentKey(mk[p].tree[mk[p].idx],
                                          mk[p].ignoreContents)
                    IN  /\ key \in DOMAIN blobs'[mk[p].name]
                        /\ blobs'[mk[p].name][key]
                             = processFileOn(FALSE, mk[p].tree[mk[p].idx],
                                             mk[p].ignoreContents,
                                             mk[p].noCompression).bytes
            /\ mk[p].pc = "scan" /\ mk'[p].pc = "done" /\ mk'[p].err = ""
                 => mfile'[mk[p].name] = SaveManifest(mk[p].m)]_vars

\* C25 witness: both invocations have passed the name-in-use check for t1
\* and have reported success, and the manifest in the store is the one
\* created first, written over the manifest created second
C25_Witness ==
    /\ \A p \in Procs :
         /\ mk[p].pc = "done" /\ mk[p].err = ""
         /\ mk[p].name = N_t1 /\ ~mk[p].existed
    /\ LoadManifest(N_t1).ok
    /\ LoadManifest(N_t1).m.created_at = 1

----------------------------------------------------------------------------
\* a step in which delete is called for a template that exists and whose
\* manifest loads
DeleteCallStep ==
    /\ last'.op = "delete"
    /\ TemplateExists(last'.name)
    /\ ManifestLoads(last'.name)

\* the template of name n is removed by the step
RemovedStep(n) ==
    /\ ~tdir'[n] /\ ~fdir'[n] /\ blobs'[n] = NoBlobs /\ mfile'[n] = NoFile
    /\ \A o \in StoreNames \ {n} :
         /\ tdir'[o] = tdir[o] /\ fdir'[o] = fdir[o]
         /\ blobs'[o] = blobs[o] /\ mfile'[o] = mfile[o]

\* the inputs whose first line, trimmed and lower-cased, is yes
YesInputs ==
    { A_yes, <<89, 69, 83, 10>>, <<32, 89, 101, 115, 32, 13, 10>>,
      <<121, 101, 115, 10, 110, 111, 10>> }

\* the inputs that end before a line feed
EndedInputs == { <<121, 101, 115>>, <<110, 111>>, <<>> }

\* C26 as stated: delete without the force flag removes the template only
\* when the answer, trimmed and lower-cased, is yes; on any other answer it
\* returns without error and leaves the store unchanged; with the force flag
\* the template is removed.
C26_OtherAnswerNoError ==
    [][DeleteCallStep =>
         IF last'.force THEN last'.err = "" /\ RemovedStep(last'.name)
         ELSE IF last'.input \in YesInputs
         THEN last'.err = "" /\ RemovedStep(last'.name)
         ELSE last'.err = "" /\ store' = store]_vars

\* C26: delete without the force flag removes the template only when a line
\* was read from standard input that, trimmed and lower-cased, is yes; on
\* any other line it returns without error, and when the input ends before
\* a line feed it returns the error 'failed to get confirmation', and in
\* both cases the store is unchanged.  With the force flag no input is read
\* and the template is removed.
C26_DeleteConfirmation ==
    [][DeleteCallStep =>
         IF last'.force
         THEN last'.err = "" /\ RemovedStep(last'.name) /\ last'.input = <<>>
         ELSE IF last'.input \in YesInputs
         THEN last'.err = "" /\ RemovedStep(last'.name)
         ELSE /\ store' = store
              /\ last'.err = IF last'.input \in EndedInputs
                             THEN "failed to get confirmation" ELSE ""]_vars

\* C26 witness: delete without force on the answer " Yes " has removed the
\* template
C26_Witness ==
    /\ last.op = "delete" /\ ~last.force /\ last.err = "" /\ ~last.cancelled
    /\ last.input = <<32, 89, 101, 115, 32, 13, 10>>
    /\ ~tdir[N_t1]
    /\ made[N_t1].deleted

----------------------------------------------------------------------------
\* C27: in every manifest make has saved, all entries that reference the
\* same hash carry the same compressed flag and the same stored_size, and
\* the stored_size of a content-bearing entry is the length of the blob
\* stored under its hash.
C27_SameHashSameFlags ==
    \A n \in StoreNames :
      made[n].ok =>
        LET files == LoadManifest(n).m.files
        IN  /\ \A i, j \in 1..Len(files) :
                 files[i].hash = files[j].hash =>
                   /\ files[i].compressed = files[j].compressed
                   /\ files[i].stored_size = files[j].stored_size
            /\ \A i \in 1..Len(files) :
                 files[i].include_contents /\ FileExists(n, files[i].hash) =>
                   files[i].stored_size = Len(blobs[n][files[i].hash])

----------------------------------------------------------------------------
\* C28: after any sequence of make and delete calls, whenever a template
\* exists and its manifest loads, its blob pool holds exactly the hashes its
\* manifest references: no blob of an earlier failed attempt is left over
\* or reused.
C28_PoolMatchesManifest ==
    \A n \in StoreNames :
      NoMakeRunning /\ TemplateExists(n) /\ ManifestLoads(n) =>
        LET files == LoadManifest(n).m.files
        IN  DOMAIN blobs[n] = {files[i].hash : i \in 1..Len(files)}

----------------------------------------------------------------------------
----------------------------------------------------------------------------
\* C30: delete and restore reject every template name that make rejects as
\* malformed (a name with a path separator or a leading dot) and leave the
\* store as it is, so that no directory other than a direct child of the
\* base directory is ever removed.
C30_MalformedNamesRejected ==
    [][/\ last'.op \in {"delete", "restore"} /\ MalformedName(last'.name)
            => last'.err # "" /\ store' = store
       /\ \A k \in Locations \ StoreNames :
            /\ tdir'[k] = tdir[k] /\ fdir'[k] = fdir[k]
            /\ blobs'[k] = blobs[k] /\ mfile'[k] = mfile[k]]_vars

====
